---- MODULE Spec2Model ----
(***************************************************************************)
(* Phomemo-M02-Web: the conversion scheduler (stores/imageconverter.ts),   *)
(* the retry wrapper, staged pipeline, OpenCV resize guard, paper          *)
(* thickness switch and halftoning step (logic/imagehelper.ts), the bit    *)
(* unpacking of the preview (components/ImagePreview.vue) and the text     *)
(* preview (App.vue, logic/textprinter.ts), the image watcher with its     *)
(* cache of the filtered image (App.vue), the text document store and the  *)
(* single-selection toggle group (components), as state machines.          *)
(***************************************************************************)
EXTENDS Integers, Naturals, Sequences, FiniteSets, TLC

VARIABLES
    mode,                \* which part of the program this behaviour exercises
    burstStart,          \* time of the first request of a burst of requests
    pipe,                \* one call of convertImageToBits (imagehelper.ts:669)
    rz,                  \* one call of resizeWithOpenCV (imagehelper.ts:61)
    px,                  \* one run of the halftoning step (imagehelper.ts:408-662)
    tone,                \* one run of the paper thickness switch (imagehelper.ts:249-279)
    txt,                 \* the text preview watcher and renderTextDocument
    app,                 \* the image watcher of App.vue and its filter cache
    store,               \* the text document store (blocks in insertion order)
    toggle,              \* one ToggleGroup of type single
    geo,                 \* one computation of the output size (imagehelper.ts 187-200)
    now,                 \* performance.now()
    lastConversionTime,  \* imageconverter.ts:12
    pendingConversion,   \* imageconverter.ts:13 (id 0 = null)
    throttleTimeout,     \* imageconverter.ts:14 (0 = null, else the timer handle)
    timers,              \* host timer table: armed timeouts [h, at]
    abortController,     \* imageconverter.ts:9  (0 = null, else the owning request)
    aborted,             \* localController.signal.aborted, per request
    nreq,                \* number of convertImage calls so far
    opts,                \* options argument of each call
    promise,             \* state of the promise convertImage returned
    reason,              \* rejection reason of that promise
    value,               \* value the promise was resolved with
    calls,               \* how often resolve/reject of that promise was called
    run,                 \* position of convertImageInternal for the request
    workArg,             \* options handed to the worker for the request
    startTime,           \* startTime (line 21) of the request's conversion
    doneTime,            \* endTime (line 26) of the request's conversion
    started              \* history: the requests in the order their conversions started

schedVars == <<now, lastConversionTime, pendingConversion, throttleTimeout, timers,
               abortController, aborted, nreq, opts, promise, reason, value,
               calls, run, workArg, startTime, doneTime, started>>

uiVars == <<app, store, toggle, geo>>

auxVars == <<px, tone, txt, uiVars>>

envVars == <<mode, burstStart, pipe, rz, auxVars>>

vars == <<envVars, schedVars>>

----------------------------------------------------------------------------
(* Bounds *)
MaxRequests == 3
Step == 50
MaxReqTime == 250
BurstSize == 10
BurstWindow == 50

(* Program constants *)
minInterval == 100

Options == {"optA", "optB"}
NoTime == 0 - 1
MaxTime == MaxReqTime + minInterval

Reqs == DOMAIN promise

PipeIdle == [pc |-> "off"]
ResizeIdle == [pc |-> "off"]

----------------------------------------------------------------------------
(* The conversion worker (worker/client): computes a PrinterImage from the *)
(* plain options it was handed; it may also fail.                          *)
convertImageWorkerFn(o) == [from |-> o]

NoPending == [id |-> 0, options |-> "none"]

----------------------------------------------------------------------------
(* convertImage, lines 36-38 *)
timeSinceLastConversion(t, last) == t - last

ConvertImmediately_Never(since) == FALSE

ConvertImmediately(since) == since >= minInterval

delay_None(since) == 0

delay_Restart(since) == minInterval

delay(since) == minInterval - since

(* convertImageInternal line 17: abortController.value?.abort() *)
AbortPrevious_Skip(ab, ctl) == ab

AbortPrevious(ab, ctl) == IF ctl = 0 THEN ab ELSE [ab EXCEPT ![ctl] = TRUE]

(* line 24: localController.signal.throwIfAborted() *)
throwIfAborted_Never(ab, r) == FALSE

throwIfAborted(ab, r) == ab[r]

(* line 31: lastConversionTime = endTime *)
RecordedTime_Start(start, end) == start

RecordedTime(start, end) == end

(* line 45: pendingConversion = { image, outputWidthPixel, options, resolve, reject } *)
NewPending_KeepOld(old, new) == IF old.id = 0 THEN new ELSE old

NewPending(old, new) == new

(* lines 53-54 and 67-68: const current = pendingConversion; pendingConversion = null *)
ClearPending_Forget(current) == current

ClearPending(current) == NoPending

(* lines 42-44: the promise of the replaced pending request is rejected *)
RejectSuperseded_Forget(p, pend) == p

RejectSuperseded(p, pend) ==
    IF pend.id = 0 THEN p
    ELSE [p EXCEPT ![pend.id] = IF @ = "pending" THEN "rejected" ELSE @]

(* the part of convertImageInternal that runs synchronously, lines 17-22 *)
convertImageInternalStart(current) ==
    LET r == current.id
    IN  /\ aborted' = [AbortPrevious(aborted, abortController) EXCEPT ![r] = FALSE]
        /\ abortController' = r
        /\ run' = [run EXCEPT ![r] = "running"]
        /\ workArg' = [workArg EXCEPT ![r] = current.options]
        /\ startTime' = [startTime EXCEPT ![r] = now]
        /\ started' = Append(started, r)

(* convertImage, lines 35-76 *)
convertImageBody(o) ==
    LET r == nreq + 1
        since == timeSinceLastConversion(now, lastConversionTime)
        old == pendingConversion
        new == NewPending(old, [id |-> r, options |-> o])
    IN  /\ nreq' = r
        /\ opts' = [opts EXCEPT ![r] = o]
        /\ promise' = [RejectSuperseded(promise, old) EXCEPT ![r] = "pending"]
        /\ reason' = IF old.id = 0 THEN reason
                     ELSE [reason EXCEPT ![old.id] = "superseded"]
        /\ calls' = IF old.id = 0 THEN calls ELSE [calls EXCEPT ![old.id] = @ + 1]
        /\ IF ConvertImmediately(since)
           THEN /\ timers' = {t \in timers : t.h # throttleTimeout}
                /\ throttleTimeout' = 0
                /\ pendingConversion' = ClearPending(new)
                /\ convertImageInternalStart(new)
           ELSE /\ timers' = {t \in timers : t.h # throttleTimeout}
                             \cup {[h |-> r, at |-> now + delay(since)]}
                /\ throttleTimeout' = r
                /\ pendingConversion' = new
                /\ UNCHANGED <<abortController, aborted, run, workArg, startTime,
                               started>>
        /\ UNCHANGED <<now, lastConversionTime, value, doneTime>>

ConvertImage(o) ==
    /\ mode = "sched"
    /\ nreq < MaxRequests
    /\ now <= MaxReqTime
    /\ convertImageBody(o)
    /\ UNCHANGED envVars

(* the setTimeout callback, lines 64-73; a timer never fires early *)
TimerFire(t) ==
    /\ t \in timers
    /\ now >= t.at
    /\ timers' = timers \ {t}
    /\ throttleTimeout' = 0
    /\ IF pendingConversion.id # 0
       THEN /\ pendingConversion' = ClearPending(pendingConversion)
            /\ convertImageInternalStart(pendingConversion)
       ELSE UNCHANGED <<pendingConversion, abortController, aborted, run, workArg,
                         startTime, started>>
    /\ UNCHANGED <<envVars, now, lastConversionTime, nreq, opts, promise, reason,
                   value, calls, doneTime>>

(* the worker call of request r returns; convertImageInternal lines 22-32   *)
(* and the .then(resolve).catch(reject) of convertImage run to completion.  *)
WorkerReturn(r, ok) ==
    /\ r \in Reqs
    /\ run[r] = "running"
    /\ run' = [run EXCEPT ![r] = "returned"]
    /\ calls' = [calls EXCEPT ![r] = @ + 1]
    /\ IF ok /\ ~throwIfAborted(aborted, r)
       THEN /\ lastConversionTime' = RecordedTime(startTime[r], now)
            /\ doneTime' = [doneTime EXCEPT ![r] = now]
            /\ promise' = [promise EXCEPT ![r] = IF @ = "pending" THEN "resolved" ELSE @]
            /\ value' = [value EXCEPT ![r] = convertImageWorkerFn(workArg[r])]
            /\ UNCHANGED reason
       ELSE /\ promise' = [promise EXCEPT ![r] = IF @ = "pending" THEN "rejected" ELSE @]
            /\ reason' = [reason EXCEPT ![r] = IF ok THEN "aborted" ELSE "failed"]
            /\ UNCHANGED <<lastConversionTime, doneTime, value>>
    /\ UNCHANGED <<envVars, now, pendingConversion, throttleTimeout, timers,
                   abortController, aborted, nreq, opts, workArg, startTime, started>>

(* time passes *)
Tick ==
    /\ now < MaxTime
    /\ now' = now + Step
    /\ UNCHANGED <<envVars, lastConversionTime, pendingConversion, throttleTimeout,
                   timers, abortController, aborted, nreq, opts, promise, reason,
                   value, calls, run, workArg, startTime, doneTime, started>>

UiInit ==
    /\ app = [pc |-> "off"]
    /\ store = [pc |-> "off"]
    /\ toggle = [pc |-> "off"]
    /\ geo = [pc |-> "off"]

SchedInit(n) ==
    /\ pendingConversion = NoPending
    /\ throttleTimeout = 0
    /\ timers = {}
    /\ abortController = 0
    /\ aborted = [r \in 1..n |-> FALSE]
    /\ nreq = 0
    /\ opts = [r \in 1..n |-> "none"]
    /\ promise = [r \in 1..n |-> "none"]
    /\ reason = [r \in 1..n |-> "none"]
    /\ value = [r \in 1..n |-> [from |-> "none"]]
    /\ calls = [r \in 1..n |-> 0]
    /\ run = [r \in 1..n |-> "idle"]
    /\ workArg = [r \in 1..n |-> "none"]
    /\ startTime = [r \in 1..n |-> NoTime]
    /\ doneTime = [r \in 1..n |-> NoTime]
    /\ started = <<>>

Init ==
    /\ mode = "sched"
    /\ burstStart = 0
    /\ pipe = PipeIdle
    /\ rz = ResizeIdle
    /\ now = 0
    /\ lastConversionTime = 0
    /\ SchedInit(MaxRequests)
    /\ UiInit
    /\ px = [pc |-> "off"]
    /\ tone = [pc |-> "off"]
    /\ txt = [pc |-> "off"]

Next ==
    \/ \E o \in Options : ConvertImage(o)
    \/ \E t \in timers : TimerFire(t)
    \/ \E r \in Reqs : WorkerReturn(r, TRUE)
    \/ \E r \in Reqs : WorkerReturn(r, FALSE)
    \/ Tick

Spec == Init /\ [][Next]_vars

(* The host eventually runs due timers, the worker eventually answers and  *)
(* the clock advances.                                                     *)
FairSpec ==
    /\ Spec
    /\ WF_vars(Tick)
    /\ WF_vars(\E t \in timers : TimerFire(t))
    /\ \A r \in 1..MaxRequests :
          WF_vars(WorkerReturn(r, TRUE) \/ WorkerReturn(r, FALSE))

----------------------------------------------------------------------------
(* A burst: up to BurstSize calls of convertImage within BurstWindow ms of *)
(* the first one, from an idle scheduler whose last conversion ended at    *)
(* lastConversionTime; every worker call succeeds, after any duration.     *)
BurstStarts == {0, minInterval, minInterval + Step}

BurstRequest(o) ==
    /\ mode = "burst"
    /\ nreq < BurstSize
    /\ now <= burstStart + BurstWindow
    /\ convertImageBody(o)
    /\ UNCHANGED envVars

BurstInit ==
    /\ mode = "burst"
    /\ burstStart \in BurstStarts
    /\ pipe = PipeIdle
    /\ rz = ResizeIdle
    /\ now = burstStart
    /\ lastConversionTime \in {t \in {0, now - Step, now} : t >= 0}
    /\ SchedInit(BurstSize)
    /\ UiInit
    /\ px = [pc |-> "off"]
    /\ tone = [pc |-> "off"]
    /\ txt = [pc |-> "off"]

BurstNext ==
    \/ BurstRequest("optA")
    \/ \E t \in timers : TimerFire(t)
    \/ \E r \in Reqs : WorkerReturn(r, TRUE)
    \/ Tick

BurstSpec == BurstInit /\ [][BurstNext]_vars

----------------------------------------------------------------------------
(* JavaScript numbers, as far as resizeWithOpenCV tells them apart: a      *)
(* finite number in quarter units (q = 4 * value), NaN, +Infinity and      *)
(* -Infinity (k = "inf", q = the sign).                                    *)
Num(q) == [k |-> "fin", q |-> q]
NaN == [k |-> "nan", q |-> 0]
PosInfinity == [k |-> "inf", q |-> 1]
NegInfinity == [k |-> "inf", q |-> 0 - 1]

(* !x *)
Falsy(x) == x.k = "nan" \/ (x.k = "fin" /\ x.q = 0)

(* isNaN(x) *)
IsNaN(x) == x.k = "nan"

(* Math.round(x): the nearest integer, halves rounded up *)
MathRound(x) == IF x.k = "fin" THEN Num(4 * ((x.q + 2) \div 4)) ELSE x

(* imagehelper.ts:71, the guard of the 'Invalid resize dimensions' error *)
InvalidResizeDimensions(w, h) == Falsy(w) \/ Falsy(h) \/ IsNaN(w) \/ IsNaN(h)

(* imagehelper.ts:88-107: the interpolation flag, linear when unknown *)
Interpolation(algorithm) ==
    IF algorithm \in {"nearest", "linear", "cubic", "area", "lanczos4"}
    THEN algorithm ELSE "linear"

ResizeDimensions ==
    {Num(q) : q \in {0 - 32, 0 - 1, 0, 1, 2, 32, 64}} \cup {NaN, PosInfinity, NegInfinity}

ResizeAlgorithms == {"nearest", "lanczos4", "undefined"}

ResizeInit ==
    /\ mode = "resize"
    /\ burstStart = 0
    /\ now = 0
    /\ lastConversionTime = 0
    /\ SchedInit(MaxRequests)
    /\ UiInit
    /\ px = [pc |-> "off"]
    /\ tone = [pc |-> "off"]
    /\ txt = [pc |-> "off"]
    /\ pipe = PipeIdle
    /\ \E w, h \in ResizeDimensions, a \in ResizeAlgorithms :
          rz = [pc |-> "waitForOpenCV", targetWidth |-> w, targetHeight |-> h,
                algorithm |-> a, cvResize |-> <<>>, error |-> "none"]

(* lines 20-56 and 68: await waitForOpenCV() *)
WaitForOpenCV(loaded) ==
    /\ mode = "resize"
    /\ rz.pc = "waitForOpenCV"
    /\ rz' = IF loaded THEN [rz EXCEPT !.pc = "validate"]
             ELSE [rz EXCEPT !.pc = "thrown", !.error = "OpenCV failed to load"]
    /\ UNCHANGED <<mode, burstStart, auxVars, pipe, schedVars>>

(* lines 70-73 *)
ResizeValidate ==
    /\ mode = "resize"
    /\ rz.pc = "validate"
    /\ rz' = IF InvalidResizeDimensions(rz.targetWidth, rz.targetHeight)
             THEN [rz EXCEPT !.pc = "thrown", !.error = "Invalid resize dimensions"]
             ELSE [rz EXCEPT !.pc = "resize"]
    /\ UNCHANGED <<mode, burstStart, auxVars, pipe, schedVars>>

(* lines 75-127: cv.resize(src, dst, dsize, 0, 0, interpolation) *)
CvResize(ok) ==
    /\ mode = "resize"
    /\ rz.pc = "resize"
    /\ rz' = [rz EXCEPT
                !.cvResize = Append(@, [width |-> MathRound(rz.targetWidth),
                                        height |-> MathRound(rz.targetHeight),
                                        interpolation |-> Interpolation(rz.algorithm)]),
                !.pc = IF ok THEN "done" ELSE "thrown",
                !.error = IF ok THEN "none" ELSE "OpenCV error code"]
    /\ UNCHANGED <<mode, burstStart, auxVars, pipe, schedVars>>

ResizeNext ==
    \/ WaitForOpenCV(TRUE)
    \/ WaitForOpenCV(FALSE)
    \/ ResizeValidate
    \/ CvResize(TRUE)
    \/ CvResize(FALSE)

ResizeSpec == ResizeInit /\ [][ResizeNext]_vars

(* C10: resizeWithOpenCV rejects every target width or height that is zero, *)
(* negative, NaN or infinite with 'Invalid resize dimensions' before        *)
(* cv.resize is called, and cv.resize only gets positive finite sizes.      *)
PositiveFinite(x) == x.k = "fin" /\ x.q > 0

C10_InvalidDimensionsRejected ==
    /\ (rz.pc \in {"resize", "done"} \/ (rz.pc = "thrown" /\ rz.error # "OpenCV failed to load"))
         => \/ PositiveFinite(rz.targetWidth) /\ PositiveFinite(rz.targetHeight)
            \/ rz.pc = "thrown" /\ rz.error = "Invalid resize dimensions" /\ rz.cvResize = <<>>
    /\ rz.pc # "off" =>
         \A i \in 1..Len(rz.cvResize) :
            PositiveFinite(rz.cvResize[i].width) /\ PositiveFinite(rz.cvResize[i].height)

----------------------------------------------------------------------------
(* convertImageToBits and convertImageToBitsInternal (imagehelper.ts).     *)

maxRetries == 1
retryDelay == 100

(* printerimage.ts:35-52 *)
defaultImageConversionOptions ==
    [rotation |-> 0, threshold |-> 128, algorithm |-> "Bayer",
     heightPercentage |-> 100, widthPercentage |-> 100,
     preprocessFilter |-> "none", filterOrder |-> "before-resize",
     resizeAlgorithm |-> "canvas",
     sharpenBeforeResize |-> "none", sharpenAfterResize |-> "none",
     autoLevels |-> FALSE, autoContrast |-> FALSE, autoExposure |-> FALSE]

(* textprinter.ts 223-234: the options renderTextDocument passes on; the   *)
(* fields it leaves out are undefined                                      *)
textRequestOptions ==
    [rotation |-> 0, threshold |-> 128, algorithm |-> "Atkinson",
     heightPercentage |-> 100, widthPercentage |-> 100,
     preprocessFilter |-> "none", filterOrder |-> "undefined",
     resizeAlgorithm |-> "undefined",
     sharpenBeforeResize |-> "undefined", sharpenAfterResize |-> "undefined",
     autoLevels |-> FALSE, autoContrast |-> FALSE, autoExposure |-> FALSE]

Algorithms == {"Basic", "Dither", "Atkinson", "Bayer", "SierraLite"}

(* Math.round(n / d) for n >= 0, d > 0 *)
RoundDiv(n, d) == (2 * n + d) \div (2 * d)

Clamp(lo, hi, x) == IF x < lo THEN lo ELSE IF x > hi THEN hi ELSE x

(* lines 188-189 *)
actualImageWidth(in) ==
    RoundDiv(in.outputWidthPixel * Clamp(1, 100, in.options.widthPercentage), 100)

(* lines 191-196 *)
fullOutputHeight(in) ==
    IF in.options.rotation = 90 \/ in.options.rotation = 270
    THEN RoundDiv(actualImageWidth(in) * in.imageWidth, in.imageHeight)
    ELSE RoundDiv(actualImageWidth(in) * in.imageHeight, in.imageWidth)

(* lines 199-200 *)
outputHeight(in) ==
    RoundDiv(fullOutputHeight(in) * Clamp(0, 100, in.options.heightPercentage), 100)

(* lines 209-216 *)
targetWidth(in) ==
    IF in.options.rotation = 90 \/ in.options.rotation = 270
    THEN fullOutputHeight(in) ELSE actualImageWidth(in)

targetHeight(in) ==
    IF in.options.rotation = 90 \/ in.options.rotation = 270
    THEN actualImageWidth(in) ELSE fullOutputHeight(in)

(* The stages of convertImageToBitsInternal in program order. *)
Stages ==
    <<"filterBefore", "autoLevelsBefore", "autoContrastBefore", "autoExposureBefore",
      "sharpenBefore", "resize", "draw", "filterAfter", "autoLevelsAfter",
      "autoContrastAfter", "autoExposureAfter", "sharpenAfter", "halftone">>

(* The stages that call an external capability (applyFilter, applyAuto*,   *)
(* applySharpen, cv.resize).                                               *)
ExternalStages == {Stages[i] : i \in 1..Len(Stages)} \ {"draw", "halftone"}

(* the condition under which the code runs the stage *)
StageEnabled(st, o) ==
    CASE st = "filterBefore" ->
            /\ o.filterOrder \in {"undefined", "before-resize"}        \* line 139
            /\ o.preprocessFilter \notin {"undefined", "none"}          \* line 141
      [] st = "autoLevelsBefore" -> o.autoLevels                        \* line 152
      [] st = "autoContrastBefore" -> o.autoContrast                    \* line 160
      [] st = "autoExposureBefore" -> o.autoExposure                    \* line 168
      [] st = "sharpenBefore" ->
            o.sharpenBeforeResize \notin {"undefined", "none"}          \* line 177
      [] st = "resize" -> o.resizeAlgorithm # "canvas"                  \* line 204
      [] st = "filterAfter" ->
            /\ o.filterOrder = "after-resize"                           \* line 320
            /\ o.preprocessFilter \notin {"undefined", "none"}
      [] st = "autoLevelsAfter" ->
            o.filterOrder = "after-resize" /\ o.autoLevels              \* lines 340-341
      [] st = "autoContrastAfter" ->
            o.filterOrder = "after-resize" /\ o.autoContrast            \* line 351
      [] st = "autoExposureAfter" ->
            o.filterOrder = "after-resize" /\ o.autoExposure            \* line 361
      [] st = "sharpenAfter" ->
            o.sharpenAfterResize \notin {"undefined", "none"}           \* line 392
      [] OTHER -> TRUE

(* lines 408-662: the PrinterImage of a finished attempt; an algorithm the *)
(* switch does not know leaves the buffer blank.                           *)
PrinterImageOf(in) ==
    [width |-> in.outputWidthPixel,
     height |-> outputHeight(in),
     bitsLength |-> (outputHeight(in) * in.outputWidthPixel) \div 8,
     bits |-> IF in.options.algorithm \in Algorithms THEN "halftoned" ELSE "blank"]

(* lines 691 and 710-712: the message of the Error that is finally thrown *)
ErrorMessage(e) ==
    IF e.type = "number" THEN "OpenCV Error code" ELSE "Conversion failed: Error"

(* line 694 *)
ShouldRetry_Always(attempt) == TRUE

ShouldRetry(attempt) == attempt < maxRetries

PipeOptions ==
    LET d == defaultImageConversionOptions
        f == [d EXCEPT !.preprocessFilter = "portrait"]
    IN  { d,
          f,
          [f EXCEPT !.filterOrder = "after-resize", !.autoLevels = TRUE],
          [d EXCEPT !.resizeAlgorithm = "linear", !.sharpenAfterResize = "light"],
          [d EXCEPT !.autoContrast = TRUE, !.autoExposure = TRUE,
                    !.sharpenBeforeResize = "medium", !.rotation = 90],
          [f EXCEPT !.algorithm = "Unknown"],
          [f EXCEPT !.threshold = 300],
          [f EXCEPT !.heightPercentage = 0] }

PipeInputs ==
    {[options |-> o, outputWidthPixel |-> 16, imageWidth |-> 16, imageHeight |-> 8] :
        o \in PipeOptions}
    \cup {[options |-> [defaultImageConversionOptions EXCEPT !.preprocessFilter = "pet"],
           outputWidthPixel |-> 12, imageWidth |-> 16, imageHeight |-> 8],
          [options |-> [defaultImageConversionOptions EXCEPT !.resizeAlgorithm = "cubic"],
           outputWidthPixel |-> 16, imageWidth |-> 64, imageHeight |-> 1],
          [options |-> textRequestOptions,
           outputWidthPixel |-> 16, imageWidth |-> 16, imageHeight |-> 50]}

Failures == {[type |-> "number"], [type |-> "Error"]}

PipeInit ==
    /\ mode = "pipe"
    /\ burstStart = 0
    /\ now = 0
    /\ lastConversionTime = 0
    /\ SchedInit(MaxRequests)
    /\ UiInit
    /\ px = [pc |-> "off"]
    /\ tone = [pc |-> "off"]
    /\ txt = [pc |-> "off"]
    /\ rz = ResizeIdle
    /\ \E in \in PipeInputs :
          pipe = [pc |-> "run", in |-> in, attempt |-> 0, stage |-> 1,
                  external |-> <<>>, attempts |-> <<[start |-> 0, end |-> NoTime,
                                                     result |-> "none"]>>,
                  lastError |-> [type |-> "null"], retryAt |-> NoTime,
                  aborted |-> FALSE,
                  outcome |-> [kind |-> "pending"]]

(* the catch block of convertImageToBits, lines 689-715 *)
AttemptFailed(p, e) ==
    LET q == [p EXCEPT !.lastError = e,
                       !.attempts[Len(p.attempts)].end = now,
                       !.attempts[Len(p.attempts)].result = "failed"]
    IN  IF ShouldRetry(p.attempt)
        THEN [q EXCEPT !.pc = "retryWait", !.attempt = @ + 1,
                       !.retryAt = now + retryDelay]
        ELSE [q EXCEPT !.pc = "done",
                       !.outcome = [kind |-> "Error", message |-> ErrorMessage(e)]]

(* a stage that is switched off is passed over *)
StageSkipped ==
    /\ mode = "pipe"
    /\ pipe.pc = "run"
    /\ ~StageEnabled(Stages[pipe.stage], pipe.in.options)
    /\ pipe' = [pipe EXCEPT !.stage = @ + 1]
    /\ UNCHANGED <<mode, burstStart, auxVars, rz, schedVars>>

(* an external capability is called and returns, or throws e *)
ExternalCall(ok, e) ==
    LET st == Stages[pipe.stage]
        called == [pipe EXCEPT !.external = Append(@, [attempt |-> pipe.attempt,
                                                       stage |-> st])]
    IN  /\ mode = "pipe"
        /\ pipe.pc = "run"
        /\ st \in ExternalStages
        /\ StageEnabled(st, pipe.in.options)
        /\ st = "resize" =>
              ~InvalidResizeDimensions(Num(4 * targetWidth(pipe.in)),
                                       Num(4 * targetHeight(pipe.in)))
        /\ pipe' = IF ok THEN [called EXCEPT !.stage = @ + 1]
                   ELSE AttemptFailed(called, e)
        /\ UNCHANGED <<mode, burstStart, auxVars, rz, schedVars>>

(* resizeWithOpenCV throws 'Invalid resize dimensions', lines 70-73 *)
ResizeRejected ==
    /\ mode = "pipe"
    /\ pipe.pc = "run"
    /\ Stages[pipe.stage] = "resize"
    /\ StageEnabled("resize", pipe.in.options)
    /\ InvalidResizeDimensions(Num(4 * targetWidth(pipe.in)),
                               Num(4 * targetHeight(pipe.in)))
    /\ pipe' = AttemptFailed(pipe, [type |-> "Error"])
    /\ UNCHANGED <<mode, burstStart, auxVars, rz, schedVars>>

(* lines 227-316: the canvas is drawn and read back; getImageData throws   *)
(* for an empty source rectangle                                           *)
Draw ==
    /\ mode = "pipe"
    /\ pipe.pc = "run"
    /\ Stages[pipe.stage] = "draw"
    /\ pipe' = IF outputHeight(pipe.in) = 0 \/ pipe.in.outputWidthPixel = 0
               THEN AttemptFailed(pipe, [type |-> "Error"])
               ELSE [pipe EXCEPT !.stage = @ + 1]
    /\ UNCHANGED <<mode, burstStart, auxVars, rz, schedVars>>

(* lines 408-662 and 688: the bits are packed and the result is returned *)
Halftone ==
    /\ mode = "pipe"
    /\ pipe.pc = "run"
    /\ Stages[pipe.stage] = "halftone"
    /\ pipe' = [pipe EXCEPT !.pc = "done",
                            !.attempts[Len(pipe.attempts)].end = now,
                            !.attempts[Len(pipe.attempts)].result = "returned",
                            !.outcome = [kind |-> "PrinterImage",
                                         printerImage |-> PrinterImageOf(pipe.in)]]
    /\ UNCHANGED <<mode, burstStart, auxVars, rz, schedVars>>

(* lines 675-682: the retry starts when the 100 ms timeout has elapsed *)
RetryStart ==
    /\ mode = "pipe"
    /\ pipe.pc = "retryWait"
    /\ now >= pipe.retryAt
    /\ pipe' = [pipe EXCEPT !.pc = "run", !.stage = 1,
                            !.attempts = Append(@, [start |-> now, end |-> NoTime,
                                                    result |-> "none"])]
    /\ UNCHANGED <<mode, burstStart, auxVars, rz, schedVars>>

(* imageconverter.ts 17: a newer conversion starts and aborts the          *)
(* controller of the request this pipeline run belongs to; the signal is   *)
(* not among the arguments of convertImageWorkerFn (line 22) nor of        *)
(* convertImageToBits (imagehelper.ts 669)                                 *)
Superseded ==
    /\ mode = "pipe"
    /\ pipe.pc \in {"run", "retryWait"}
    /\ ~pipe.aborted
    /\ pipe' = [pipe EXCEPT !.aborted = TRUE]
    /\ UNCHANGED <<mode, burstStart, auxVars, rz, schedVars>>

PipeNext ==
    \/ Superseded
    \/ StageSkipped
    \/ ExternalCall(TRUE, [type |-> "null"])
    \/ \E e \in Failures : ExternalCall(FALSE, e)
    \/ ResizeRejected
    \/ Draw
    \/ Halftone
    \/ RetryStart
    \/ Tick

PipeSpec == PipeInit /\ [][PipeNext]_vars

----------------------------------------------------------------------------
(* Claims about the scheduler *)

Running == {r \in Reqs : run[r] = "running"}
Live == {r \in Reqs : run[r] = "running" /\ ~aborted[r]}
Settled(r) == promise[r] \in {"resolved", "rejected"}
LastStarted == IF started = <<>> THEN 0 ELSE started[Len(started)]

(* C1 as stated: two worker calls are never executing at the same moment. *)
C1_Orig_OneWorkerCallAtATime == Cardinality(Running) <= 1

(* C1 amended: at most one conversion that has not been cancelled is in     *)
(* flight, and it is the most recently started one: every start cancels the *)
(* conversion started before it (whose worker call may still be executing). *)
C1_AtMostOneLiveConversion ==
    /\ Cardinality(Live) <= 1
    /\ \A r \in Running : r # LastStarted => aborted[r]
    /\ \A r \in Live : r = abortController

C1_Witness == \E q, r \in Running : q # r /\ aborted[q] /\ ~aborted[r]

(* C2: resolve/reject of a request's promise is called at most once, a      *)
(* settled promise has been settled by exactly one call, and every pending  *)
(* promise is eventually settled.                                           *)
C2_SettlesExactlyOnce ==
    /\ [](\A r \in Reqs : /\ calls[r] <= 1
                          /\ Settled(r) <=> calls[r] = 1
                          /\ promise[r] = "resolved" => reason[r] = "none"
                          /\ promise[r] = "rejected" => reason[r] # "none")
    /\ \A r \in 1..MaxRequests : (promise[r] = "pending") ~> Settled(r)

C2_Witness ==
    \E q, r \in Reqs : /\ promise[q] = "rejected" /\ reason[q] = "superseded"
                       /\ promise[r] = "resolved" /\ calls[q] = 1 /\ calls[r] = 1

(* C3: the pending request is always the most recent one; a replaced        *)
(* request is rejected as superseded in the step that replaces it and its   *)
(* conversion is never started.                                             *)
C3_OnlyLatestPendingRuns ==
    /\ pendingConversion.id # 0 =>
          pendingConversion = [id |-> nreq, options |-> opts[nreq]]
    /\ \A r \in Reqs :
         /\ reason[r] = "superseded" => run[r] = "idle" /\ promise[r] = "rejected"
         /\ (r < nreq /\ run[r] = "idle") =>
                promise[r] = "rejected" /\ reason[r] = "superseded"
         /\ run[r] # "idle" => reason[r] # "superseded"

C3_Witness ==
    \E q, r \in Reqs : /\ q < r /\ reason[q] = "superseded" /\ run[q] = "idle"
                       /\ run[r] = "returned" /\ promise[r] = "resolved"

(* C4: a conversion whose worker call returns after a newer conversion was  *)
(* started is rejected, never resolved.                                     *)
C4_SupersededResultDiscarded ==
    [][\A r \in Reqs :
         (run[r] = "running" /\ run'[r] = "returned" /\ r # LastStarted)
            => /\ promise'[r] = "rejected"
               /\ reason'[r] \in {"aborted", "failed"}
               /\ value'[r] = value[r]]_vars

C4_Witness ==
    \E q, r \in Reqs : /\ q # r /\ run[q] = "returned" /\ reason[q] = "aborted"
                       /\ run[r] = "returned" /\ promise[r] = "resolved"
                       /\ doneTime[r] < now

(* C5 amended: when requests stop, the last request is eventually resolved  *)
(* with the result for its own options (or rejected because its worker call *)
(* failed); every earlier request that was replaced while pending is        *)
(* already rejected, and every earlier request is eventually settled.       *)
C5_LastRequestWins ==
    /\ [](\A r \in Reqs : /\ promise[r] = "resolved" =>
                               value[r] = convertImageWorkerFn(opts[r])
                          /\ (r < nreq /\ run[r] = "idle") => promise[r] = "rejected")
    /\ \A r \in 1..MaxRequests :
          <>[](nreq = r) =>
             <>[](/\ promise[r] = "resolved" \/ reason[r] = "failed"
                  /\ \A q \in 1..r : Settled(q))

C5_Witness ==
    /\ nreq > 1
    /\ promise[nreq] = "resolved" /\ opts[nreq] # opts[1]
    /\ \A q \in 1..nreq : Settled(q)

(* C5 as stated: once the last request has resolved, every earlier request  *)
(* that was superseded (replaced while pending or cancelled while running)  *)
(* has been rejected.                                                       *)
C5_Orig_EarlierRejectedByThen ==
    (nreq > 0 /\ promise[nreq] = "resolved") =>
        \A q \in 1..(nreq - 1) :
            (run[q] # "returned" \/ reason[q] = "aborted") => promise[q] = "rejected"

(* C6: a conversion is never started less than minInterval after a          *)
(* conversion completed, and two completions are at least minInterval apart.*)
C6_RateLimited ==
    /\ [](\A q, r \in Reqs :
            (q # r /\ promise[q] = "resolved" /\ promise[r] = "resolved") =>
                \/ doneTime[q] - doneTime[r] >= minInterval
                \/ doneTime[r] - doneTime[q] >= minInterval)
    /\ [][\A r \in Reqs :
            (run[r] = "idle" /\ run'[r] = "running") =>
               \A q \in Reqs : promise[q] = "resolved" =>
                                  now >= doneTime[q] + minInterval]_vars

C6_Witness ==
    \E q, r \in Reqs : /\ promise[q] = "resolved" /\ promise[r] = "resolved"
                       /\ startTime[r] = doneTime[q] + minInterval
                       /\ startTime[r] > startTime[q]

----------------------------------------------------------------------------
(* Claims about convertImageToBits *)

(* C8: convertImageToBits makes at most two attempts; the second one only   *)
(* after the first failed and retryDelay ms later; the result of the first  *)
(* successful attempt is returned and no attempt follows it; when both      *)
(* attempts fail an Error is thrown whose message translates a numeric      *)
(* OpenCV code, and no PrinterImage is returned.                            *)
C8_RetriesExactlyOnce ==
    pipe.pc # "off" =>
        LET a == pipe.attempts
            n == Len(pipe.attempts)
        IN  /\ n <= 2 /\ pipe.attempt <= 1 /\ n <= pipe.attempt + 1
            /\ n = 2 => a[1].result = "failed" /\ a[2].start >= a[1].end + retryDelay
            /\ \A i \in 1..n : a[i].result = "returned" => i = n /\ pipe.pc = "done"
            /\ (pipe.pc = "done") <=> (pipe.outcome.kind # "pending")
            /\ pipe.outcome.kind = "PrinterImage" =>
                  a[n].result = "returned" /\ \A i \in 1..(n - 1) : a[i].result = "failed"
            /\ pipe.outcome.kind = "Error" =>
                  /\ n = 2 /\ a[1].result = "failed" /\ a[2].result = "failed"
                  /\ pipe.lastError.type = "number" <=>
                        pipe.outcome.message = "OpenCV Error code"

C8_Witness ==
    /\ pipe.pc = "done"
    /\ Len(pipe.attempts) = 2
    /\ pipe.attempts[1].result = "failed"
    /\ pipe.outcome.kind = "PrinterImage"

(* C9: a conversion with malformed options fails before any external        *)
(* capability is called, is not retried, and yields no PrinterImage.        *)
Malformed(in) ==
    \/ in.outputWidthPixel % 8 # 0
    \/ in.options.algorithm \notin Algorithms
    \/ in.options.threshold \notin 0..255

C9_MalformedFailsFast ==
    (pipe.pc # "off" /\ Malformed(pipe.in)) =>
        /\ pipe.external = <<>>
        /\ pipe.attempt = 0
        /\ pipe.outcome.kind # "PrinterImage"

----------------------------------------------------------------------------
(* The halftoning step of convertImageToBitsInternal (imagehelper.ts       *)
(* 408-662) on one sampled raster.  A pixel is the sum R+G+B of its        *)
(* channels (0..765).  The Float32 grayscale buffer is held in fixed       *)
(* point: one gray level is GrayUnit units, so (R+G+B)/3.0 is exact and a  *)
(* quotient err*num/den is rounded down to 1/GrayUnit of a gray level.     *)
MaxHeight == 3

Widths == {8, 16}

Levels == <<0, 300, 390, 765>>

Thresholds == {0, 128, 255}

HalftoneAlgorithms == {"Basic", "Dither", "Atkinson", "Bayer", "SierraLite"}

ErrorDiffusion == {"Dither", "Atkinson", "SierraLite"}

GrayUnit == 3 * 4096

White == 255 * GrayUnit

(* lines 442, 497, 602: (R + G + B) / 3.0 *)
Gray(sum) == sum * (GrayUnit \div 3)

(* line 408: new Uint8ClampedArray(outputHeight * outputWidthPixel / 8) *)
BitsLength_PerPixel(h, w) == h * w

BitsLength(h, w) == (h * w) \div 8

(* lines 427, 482, 546, 587, 641: the byte written, y * outputWidthPixel / 8 + x *)
ByteIndex(y, x, w) == (y * w) \div 8 + x

(* the same lines: result << (7 - bit) *)
BitShift_LSB(bit) == bit

BitShift(bit) == 7 - bit

(* lines 424-426: options.invert ? (pixelValue ? 0 : 1) : (pixelValue ? 1 : 0) *)
BitResult_NoInvert(pixelValue, invert) == IF pixelValue THEN 1 ELSE 0

BitResult(pixelValue, invert) ==
    IF invert THEN (IF pixelValue THEN 0 ELSE 1) ELSE (IF pixelValue THEN 1 ELSE 0)

(* lines 554-563 *)
bayerMatrix8x8 ==
    << << 0, 32,  8, 40,  2, 34, 10, 42>>,
       <<48, 16, 56, 24, 50, 18, 58, 26>>,
       <<12, 44,  4, 36, 14, 46,  6, 38>>,
       <<60, 28, 52, 20, 62, 30, 54, 22>>,
       << 3, 35, 11, 43,  1, 33,  9, 41>>,
       <<51, 19, 59, 27, 49, 17, 57, 25>>,
       <<15, 47,  7, 39, 13, 45,  5, 37>>,
       <<63, 31, 55, 23, 61, 29, 53, 21>> >>

(* lines 413-416: getPixel of the Basic algorithm *)
BasicPixel(sum, threshold) == sum < threshold * 3

(* lines 573-583: gray < adjustedThreshold + (bayerValue - 31.5) * 2, all  *)
(* terms multiplied by 3                                                   *)
BayerPixel(sum, threshold, x, y) ==
    LET bayerValue == bayerMatrix8x8[(y % 8) + 1][(x % 8) + 1]
    IN  sum < 3 * (threshold + (2 * bayerValue - 63))

(* the guards of the error writes, lines 457-467, 515-532, 619-627 *)
HasRight(x, w) == x + 1 < w

HasRight2(x, w) == x + 2 < w

HasLeft_Unchecked(x) == TRUE

HasLeft(x) == x > 0

HasBelow(y, h) == y + 1 < h

HasBelow2(y, h) == y + 2 < h

Tap(name, on, target, num, den) ==
    [tap |-> name, on |-> on, target |-> target, num |-> num, den |-> den]

(* lines 457-468: Floyd-Steinberg *)
DitherTaps(x, y, w, h, idx) ==
    << Tap("right", HasRight(x, w), idx + 1, 7, 16),
       Tap("belowLeft", HasBelow(y, h) /\ HasLeft(x), idx + w - 1, 3, 16),
       Tap("below", HasBelow(y, h), idx + w, 5, 16),
       Tap("belowRight", HasBelow(y, h) /\ HasRight(x, w), idx + w + 1, 1, 16) >>

(* lines 515-532: Atkinson *)
AtkinsonTaps_WholeError(x, y, w, h, idx) ==
    << Tap("right", HasRight(x, w), idx + 1, 1, 6),
       Tap("right2", HasRight2(x, w), idx + 2, 1, 6),
       Tap("belowLeft", HasBelow(y, h) /\ HasLeft(x), idx + w - 1, 1, 6),
       Tap("below", HasBelow(y, h), idx + w, 1, 6),
       Tap("belowRight", HasBelow(y, h) /\ HasRight(x, w), idx + w + 1, 1, 6),
       Tap("below2", HasBelow2(y, h), idx + 2 * w, 1, 6) >>

AtkinsonTaps(x, y, w, h, idx) ==
    << Tap("right", HasRight(x, w), idx + 1, 1, 8),
       Tap("right2", HasRight2(x, w), idx + 2, 1, 8),
       Tap("belowLeft", HasBelow(y, h) /\ HasLeft(x), idx + w - 1, 1, 8),
       Tap("below", HasBelow(y, h), idx + w, 1, 8),
       Tap("belowRight", HasBelow(y, h) /\ HasRight(x, w), idx + w + 1, 1, 8),
       Tap("below2", HasBelow2(y, h), idx + 2 * w, 1, 8) >>

(* lines 619-627: Sierra Lite *)
SierraLiteTaps(x, y, w, h, idx) ==
    << Tap("right", HasRight(x, w), idx + 1, 2, 4),
       Tap("belowLeft", HasBelow(y, h) /\ HasLeft(x), idx + w - 1, 1, 4),
       Tap("below", HasBelow(y, h), idx + w, 1, 4) >>

Taps(algorithm, x, y, w, h, idx) ==
    CASE algorithm = "Dither" -> DitherTaps(x, y, w, h, idx)
      [] algorithm = "Atkinson" -> AtkinsonTaps(x, y, w, h, idx)
      [] algorithm = "SierraLite" -> SierraLiteTaps(x, y, w, h, idx)

(* grayscale[target] += error * num / den; a typed array ignores a write   *)
(* outside its length                                                      *)
RECURSIVE ApplyTaps(_, _, _, _)
ApplyTaps(g, taps, i, error) ==
    IF i > Len(taps) THEN g
    ELSE LET t == taps[i]
             g1 == IF t.on /\ t.target \in DOMAIN g
                   THEN [g EXCEPT ![t.target] = @ + ((error * t.num) \div t.den)]
                   ELSE g
         IN  ApplyTaps(g1, taps, i + 1, error)

(* the error writes pixel (x, y) issues *)
WritesOf(taps, x, y) ==
    {[x |-> x, y |-> y, tap |-> taps[i].tap, target |-> taps[i].target,
      num |-> taps[i].num, den |-> taps[i].den] : i \in {j \in DOMAIN taps : taps[j].on}}

(* lines 449-468, 504-532, 609-627: the body of the loops for pixel idx *)
DiffusePixel(g, idx, w, h, algorithm, threshold) ==
    LET oldPixel == g[idx]
        newPixel == IF oldPixel < threshold * GrayUnit THEN 0 ELSE White
        error == oldPixel - newPixel
        taps == Taps(algorithm, idx % w, idx \div w, w, h, idx)
    IN  ApplyTaps([g EXCEPT ![idx] = newPixel], taps, 1, error)

(* lines 448, 503, 608: for (x = 0; x < outputWidthPixel; x++) *)
RECURSIVE DiffuseRow(_, _, _, _, _, _, _)
DiffuseRow(g, x, y, w, h, algorithm, threshold) ==
    IF x >= w THEN g
    ELSE LET g1 == DiffusePixel(g, y * w + x, w, h, algorithm, threshold)
         IN  \* a typed array keeps its length; the test evaluates g1 before the next pixel
             IF DOMAIN g1 = DOMAIN g
             THEN DiffuseRow(g1, x + 1, y, w, h, algorithm, threshold)
             ELSE g

(* lines 447, 502, 607: for (y = 0; y < outputHeight; y++) *)
RECURSIVE Diffuse(_, _, _, _, _, _)
Diffuse(g, y, w, h, algorithm, threshold) ==
    IF y >= h THEN g
    ELSE LET g1 == DiffuseRow(g, 0, y, w, h, algorithm, threshold)
         IN  IF DOMAIN g1 = DOMAIN g
             THEN Diffuse(g1, y + 1, w, h, algorithm, threshold)
             ELSE g

(* lines 438-444 then the dithering loop *)
Diffused(data, w, h, algorithm, threshold) ==
    Diffuse([i \in 0..(w * h - 1) |-> Gray(data[i])], 0, w, h, algorithm, threshold)

(* every error write of the dithering loop over a w x h raster *)
ErrorWrites(w, h, algorithm) ==
    UNION {WritesOf(Taps(algorithm, idx % w, idx \div w, w, h, idx), idx % w, idx \div w) :
              idx \in 0..(w * h - 1)}

(* pixelValue of every pixel, TRUE = dark: lines 423, 478, 542, 583, 637;  *)
(* gray is the grayscale buffer the dithering loop left                    *)
PixelValues(data, gray, w, h, algorithm, threshold) ==
    CASE algorithm = "Basic" ->
            [i \in 0..(w * h - 1) |-> BasicPixel(data[i], threshold)]
      [] algorithm = "Bayer" ->
            [i \in 0..(w * h - 1) |-> BayerPixel(data[i], threshold, i % w, i \div w)]
      [] algorithm \in ErrorDiffusion ->
            [i \in 0..(w * h - 1) |-> gray[i] < threshold * GrayUnit]

(* the packing loops, e.g. lines 418-430: the byte at (y, x) of the row    *)
PackByte(result, y, x, w) ==
    LET b(bit) == result[y * w + x * 8 + bit] * (2 ^ BitShift(bit))
    IN  b(0) + b(1) + b(2) + b(3) + b(4) + b(5) + b(6) + b(7)

PackBits(result, w, h) ==
    [k \in 0..(BitsLength(h, w) - 1) |->
        LET cells == {c \in (0..(h - 1)) \X (0..((w \div 8) - 1)) :
                          ByteIndex(c[1], c[2], w) = k}
        IN  IF cells = {} THEN 0
            ELSE LET c == CHOOSE c \in cells : TRUE IN PackByte(result, c[1], c[2], w)]

(* ImagePreview.vue lines 54-120: (byte >> s) & 1 ? 0 : 255 for s = 7..0,  *)
(* eight pixels per byte in the order of the bytes                         *)
PreviewColor(byte, s) == IF (byte \div (2 ^ s)) % 2 = 1 THEN 0 ELSE 255

PreviewPixels(image) ==
    LET bytesPerRow == image.width \div 8
    IN  [p \in 0..(image.height * bytesPerRow * 8 - 1) |->
            LET k == p \div 8
            IN  IF k \in DOMAIN image.bits
                THEN PreviewColor(image.bits[k], 7 - (p % 8)) ELSE 255]

(* the sampled rasters: level ((a*x + b*y + c) mod 4) of Levels at (x, y)  *)
RasterOf(a, b, c, w, h) ==
    [i \in 0..(w * h - 1) |-> Levels[((a * (i % w) + b * (i \div w) + c) % 4) + 1]]

Rasters(w, h) ==
    {RasterOf(a, b, c, w, h) : a \in {0, 1, 3}, b \in {0, 1}, c \in 0..3}

PxInit ==
    /\ mode = "halftone"
    /\ burstStart = 0
    /\ now = 0
    /\ lastConversionTime = 0
    /\ SchedInit(MaxRequests)
    /\ UiInit
    /\ pipe = PipeIdle
    /\ rz = ResizeIdle
    /\ tone = [pc |-> "off"]
    /\ txt = [pc |-> "off"]
    /\ \E w \in Widths, h \in 1..MaxHeight, al \in HalftoneAlgorithms,
          inv \in BOOLEAN, th \in Thresholds :
          \E d \in Rasters(w, h) :
             px = [pc |-> "sampled", width |-> w, height |-> h, data |-> d,
                   algorithm |-> al, invert |-> inv, threshold |-> th,
                   gray |-> <<>>, result |-> <<>>, writes |-> {},
                   image |-> [width |-> 0, height |-> 0, bits |-> <<>>],
                   preview |-> <<>>]

(* lines 435-470, 490-534, 595-629: the grayscale buffer and the error    *)
(* diffusion loop of Dither, Atkinson and SierraLite                       *)
DitherPass ==
    /\ mode = "halftone"
    /\ px.pc = "sampled"
    /\ px.algorithm \in ErrorDiffusion
    /\ px' = [px EXCEPT
                 !.pc = "dithered",
                 !.gray = Diffused(px.data, px.width, px.height, px.algorithm, px.threshold),
                 !.writes = ErrorWrites(px.width, px.height, px.algorithm)]
    /\ UNCHANGED <<mode, burstStart, tone, txt, pipe, rz, schedVars, uiVars>>

(* lines 408, 418-430, 473-485, 537-549, 566-590, 632-644 and 654-662: the *)
(* bits of the raster, then the PrinterImage                               *)
HalftoneBits ==
    /\ mode = "halftone"
    /\ \/ px.pc = "dithered"
       \/ px.pc = "sampled" /\ px.algorithm \notin ErrorDiffusion
    /\ LET w == px.width
           h == px.height
           pv == PixelValues(px.data, px.gray, w, h, px.algorithm, px.threshold)
           result == [i \in 0..(w * h - 1) |-> BitResult(pv[i], px.invert)]
       IN  px' = [px EXCEPT
                    !.pc = "converted",
                    !.result = result,
                    !.image = [width |-> w, height |-> h, bits |-> PackBits(result, w, h)]]
    /\ UNCHANGED <<mode, burstStart, tone, txt, pipe, rz, schedVars, uiVars>>

(* ImagePreview.vue lines 44-122 *)
PreviewDraw ==
    /\ mode = "halftone"
    /\ px.pc = "converted"
    /\ px' = [px EXCEPT !.pc = "shown", !.preview = PreviewPixels(px.image)]
    /\ UNCHANGED <<mode, burstStart, tone, txt, pipe, rz, schedVars, uiVars>>

PxNext ==
    \/ DitherPass
    \/ HalftoneBits
    \/ PreviewDraw

PxSpec == PxInit /\ [][PxNext]_vars

----------------------------------------------------------------------------
(* Claims about the halftoning step *)

Converted == px.pc \in {"converted", "shown"}

BitsCount(image) == Cardinality(DOMAIN image.bits)

BitAt(byte, s) == (byte \div (2 ^ s)) % 2

MixedByte(byte) == byte \notin {0, 255}

(* C11: a conversion with an output width that is a multiple of 8 returns, *)
(* for each of the five algorithms and both values of invert, a            *)
(* PrinterImage whose width is the output width and whose bits hold        *)
(* exactly (width / 8) * height bytes.                                     *)
C11_BitsLengthMatchesRaster ==
    (Converted /\ px.width % 8 = 0) =>
        /\ px.image.width = px.width
        /\ px.image.height = px.height
        /\ BitsCount(px.image) = (px.image.width \div 8) * px.image.height

C11_Witness ==
    /\ px.pc = "converted"
    /\ px.algorithm = "Atkinson"
    /\ px.invert
    /\ px.width = 16
    /\ px.height = 3
    /\ BitsCount(px.image) = 6

(* C12: the decision for pixel (x, y) is bit 7 - (x mod 8) of byte         *)
(* y * (width / 8) + floor(x / 8), 1 = black, and the preview's decoding   *)
(* of the bits gives every pixel the colour the converter decided.         *)
C12_PackedMsbFirst ==
    Converted =>
        \A x \in 0..(px.width - 1), y \in 0..(px.height - 1) :
            LET k == y * (px.width \div 8) + (x \div 8)
                decision == px.result[y * px.width + x]
            IN  /\ k \in DOMAIN px.image.bits
                /\ BitAt(px.image.bits[k], 7 - (x % 8)) = decision
                /\ px.pc = "shown" =>
                      (px.preview[y * px.width + x] = 0) = (decision = 1)

C12_Witness ==
    /\ px.pc = "shown"
    /\ px.width = 16
    /\ px.height > 1
    /\ \E k \in DOMAIN px.image.bits :
          /\ MixedByte(px.image.bits[k])
          /\ BitAt(px.image.bits[k], 7) # BitAt(px.image.bits[k], 0)
    /\ \E p, q \in DOMAIN px.preview : px.preview[p] = 0 /\ px.preview[q] = 255

(* C13: for each algorithm the bits produced with invert = true are the    *)
(* bitwise complement of the bits produced from the same raster and        *)
(* options with invert = false.                                            *)
C13_InvertIsComplement ==
    Converted =>
        LET pv == PixelValues(px.data, px.gray, px.width, px.height,
                              px.algorithm, px.threshold)
            other == PackBits([i \in DOMAIN pv |-> BitResult(pv[i], ~px.invert)],
                              px.width, px.height)
        IN  /\ DOMAIN other = DOMAIN px.image.bits
            /\ \A k \in DOMAIN other : px.image.bits[k] + other[k] = 255

C13_Witness ==
    /\ px.pc = "converted"
    /\ px.invert
    /\ px.algorithm = "Dither"
    /\ \E k \in DOMAIN px.image.bits : MixedByte(px.image.bits[k])

(* the neighbour each error write is meant for *)
Neighbour(tap) ==
    CASE tap = "right" -> [dx |-> 1, dy |-> 0]
      [] tap = "right2" -> [dx |-> 2, dy |-> 0]
      [] tap = "belowLeft" -> [dx |-> 0 - 1, dy |-> 1]
      [] tap = "below" -> [dx |-> 0, dy |-> 1]
      [] tap = "belowRight" -> [dx |-> 1, dy |-> 1]
      [] tap = "below2" -> [dx |-> 0, dy |-> 2]

(* C14: every error write of Dither, Atkinson and SierraLite lands on the  *)
(* intended neighbour, which lies inside the raster: no write wraps into   *)
(* another row and none falls outside the grayscale buffer.                *)
C14_ErrorWritesInRaster ==
    \A wr \in px.writes :
        LET nx == wr.x + Neighbour(wr.tap).dx
            ny == wr.y + Neighbour(wr.tap).dy
        IN  /\ nx \in 0..(px.width - 1)
            /\ ny \in 0..(px.height - 1)
            /\ wr.target = ny * px.width + nx
            /\ wr.target \in DOMAIN px.gray

C14_Witness ==
    /\ px.pc = "dithered"
    /\ px.algorithm = "Atkinson"
    /\ px.height = 3
    /\ \E wr \in px.writes : wr.tap = "below2"
    /\ \E wr \in px.writes : wr.x = 0 /\ wr.y = 0 /\ wr.tap = "below"
    /\ ~ \E wr \in px.writes : wr.x = 0 /\ wr.tap = "belowLeft"
    /\ ~ \E wr \in px.writes : wr.x = px.width - 1 /\ wr.tap \in {"right", "belowRight"}
    /\ ~ \E wr \in px.writes : wr.y = px.height - 1 /\ Neighbour(wr.tap).dy > 0

----------------------------------------------------------------------------
(* The paper thickness switch of convertImageToBitsInternal (imagehelper.ts *)
(* 244-279).  options.contrast and options.exposure are in hundredths, the *)
(* adjusted values in ten-thousandths, so that * 1.15, * 0.92 and * 1.1    *)
(* are exact.                                                              *)
MaxThreshold == 255

PaperThicknesses == {"none", "light", "medium", "heavy", "dedicated", "undefined"}

ToneFactors == {50, 100, 200}

Min(a, b) == IF a < b THEN a ELSE b

Max(a, b) == IF a > b THEN a ELSE b

(* lines 246, 253, 262 *)
AdjustedExposure(paperThickness, exposure) ==
    CASE paperThickness = "light" -> exposure * 115
      [] paperThickness = "heavy" -> exposure * 92
      [] OTHER -> exposure * 100

(* lines 245, 267 *)
AdjustedContrast(paperThickness, contrast) ==
    CASE paperThickness = "dedicated" -> contrast * 110
      [] OTHER -> contrast * 100

(* lines 247, 254, 263, 268 *)
AdjustedThreshold_Unclamped(paperThickness, threshold) ==
    CASE paperThickness = "light" -> threshold + 12
      [] paperThickness = "heavy" -> threshold - 13
      [] paperThickness = "dedicated" -> threshold - 3
      [] OTHER -> threshold

AdjustedThreshold(paperThickness, threshold) ==
    CASE paperThickness = "light" -> Min(255, threshold + 12)
      [] paperThickness = "heavy" -> Max(0, threshold - 13)
      [] paperThickness = "dedicated" -> Max(0, threshold - 3)
      [] OTHER -> threshold

ToneInit ==
    /\ mode = "tone"
    /\ burstStart = 0
    /\ now = 0
    /\ lastConversionTime = 0
    /\ SchedInit(MaxRequests)
    /\ UiInit
    /\ pipe = PipeIdle
    /\ rz = ResizeIdle
    /\ px = [pc |-> "off"]
    /\ txt = [pc |-> "off"]
    /\ \E th \in 0..MaxThreshold, p \in PaperThicknesses, c, e \in ToneFactors :
          tone = [pc |-> "options", threshold |-> th, paperThickness |-> p,
                  contrast |-> c, exposure |-> e,
                  adjustedContrast |-> 0, adjustedExposure |-> 0, adjustedThreshold |-> 0]

(* lines 244-279 *)
ApplyPaperThickness ==
    /\ mode = "tone"
    /\ tone.pc = "options"
    /\ tone' = [tone EXCEPT
                  !.pc = "adjusted",
                  !.adjustedContrast = AdjustedContrast(tone.paperThickness, tone.contrast),
                  !.adjustedExposure = AdjustedExposure(tone.paperThickness, tone.exposure),
                  !.adjustedThreshold = AdjustedThreshold(tone.paperThickness, tone.threshold)]
    /\ UNCHANGED <<mode, burstStart, px, txt, pipe, rz, schedVars, uiVars>>

ToneNext == ApplyPaperThickness

ToneSpec == ToneInit /\ [][ToneNext]_vars

(* C15: for every threshold in 0..255, none and medium change nothing;     *)
(* light gives exposure * 1.15 and threshold min(255, t + 12); heavy gives *)
(* exposure * 0.92 and max(0, t - 13); dedicated gives contrast * 1.1 and  *)
(* max(0, t - 3); so 128 becomes 115 for heavy and 125 for dedicated, and  *)
(* the adjusted threshold stays within 0..255.                             *)
C15_PaperThicknessTable ==
    tone.pc = "adjusted" =>
        LET t == tone.threshold
            p == tone.paperThickness
            sameExposure == tone.adjustedExposure = tone.exposure * 100
            sameContrast == tone.adjustedContrast = tone.contrast * 100
        IN  /\ p \in {"none", "medium"} =>
                  sameExposure /\ sameContrast /\ tone.adjustedThreshold = t
            /\ p = "light" =>
                  /\ 100 * tone.adjustedExposure = 115 * (tone.exposure * 100)
                  /\ sameContrast
                  /\ tone.adjustedThreshold = (IF t + 12 > 255 THEN 255 ELSE t + 12)
            /\ p = "heavy" =>
                  /\ 100 * tone.adjustedExposure = 92 * (tone.exposure * 100)
                  /\ sameContrast
                  /\ tone.adjustedThreshold = (IF t - 13 < 0 THEN 0 ELSE t - 13)
                  /\ t = 128 => tone.adjustedThreshold = 115
            /\ p = "dedicated" =>
                  /\ 100 * tone.adjustedContrast = 110 * (tone.contrast * 100)
                  /\ sameExposure
                  /\ tone.adjustedThreshold = (IF t - 3 < 0 THEN 0 ELSE t - 3)
                  /\ t = 128 => tone.adjustedThreshold = 125
            /\ tone.adjustedThreshold \in 0..255

C15_Witness ==
    /\ tone.pc = "adjusted"
    /\ tone.paperThickness = "heavy"
    /\ tone.threshold = 5
    /\ tone.exposure = 100
    /\ tone.adjustedThreshold = 0
    /\ tone.adjustedExposure = 9200

----------------------------------------------------------------------------
(* Claims about the Atkinson algorithm *)

UniformInput(level) == \A i \in DOMAIN px.data : px.data[i] = level

AtkinsonRun == Converted /\ px.algorithm = "Atkinson" /\ ~px.invert

(* the pixels outside the final two columns and rows *)
InnerPixels ==
    {y * px.width + x : x \in 0..(px.width - 3), y \in 0..(px.height - 3)}

(* C16 as stated: with Atkinson a uniform gray input above the threshold   *)
(* gives uniformly white output and one below the threshold uniformly      *)
(* black output, outside the final two columns and rows.                   *)
C16_Orig_UniformGrayStaysUniform ==
    AtkinsonRun =>
        \A level \in {Levels[j] : j \in DOMAIN Levels} :
            UniformInput(level) =>
                /\ level > 3 * px.threshold => \A i \in InnerPixels : px.result[i] = 0
                /\ level < 3 * px.threshold => \A i \in InnerPixels : px.result[i] = 1

(* C16: with Atkinson a uniform input of gray 255 gives uniformly white    *)
(* output and a uniform input of gray 0 (threshold above 0) uniformly      *)
(* black output; a pixel whose six neighbours all lie in the raster writes *)
(* 1/8 of its error to each of the six, 6/8 in all.                        *)
C16_AtkinsonExtremesAndShare ==
    /\ AtkinsonRun =>
          /\ UniformInput(765) => \A i \in DOMAIN px.result : px.result[i] = 0
          /\ (UniformInput(0) /\ px.threshold > 0) =>
                \A i \in DOMAIN px.result : px.result[i] = 1
    /\ (px.pc = "dithered" /\ px.algorithm = "Atkinson") =>
          \A x \in 1..(px.width - 3), y \in 0..(px.height - 3) :
              LET mine == {wr \in px.writes : wr.x = x /\ wr.y = y}
              IN  /\ {wr.tap : wr \in mine} =
                        {"right", "right2", "belowLeft", "below", "belowRight", "below2"}
                  /\ Cardinality({wr.target : wr \in mine}) = 6
                  /\ Cardinality(mine) = 6
                  /\ \A wr \in mine : wr.num = 1 /\ wr.den = 8

C16_Witness ==
    /\ AtkinsonRun
    /\ px.width = 16
    /\ px.height = 3
    /\ px.threshold = 128
    /\ UniformInput(765)
    /\ \A i \in DOMAIN px.result : px.result[i] = 0
    /\ Cardinality({wr \in px.writes : wr.x = 1 /\ wr.y = 0}) = 6

----------------------------------------------------------------------------
(* The text preview: the watcher of App.vue (132-162) and                  *)
(* renderTextDocument (textprinter.ts 170-238).  A block is the number of  *)
(* lines wrapText gives its content (at least one, also for empty content) *)
(* and its font size; heights are in tenths of a pixel, so that            *)
(* fontSize * 1.2 is exact.                                                *)
MaxBlocks == 2

TextBlocks ==
    {[lines |-> 1, fontSize |-> 8], [lines |-> 1, fontSize |-> 24],
     [lines |-> 3, fontSize |-> 24]}

CurrentTexts == {"", "  ", "hi"}

PaperWidths == {16, 384}

(* currentText.value.trim(), as a truth value *)
Trimmed(text) == text \notin {"", "  "}

(* textprinter.ts 98 and 106: lines.length * (style.fontSize * 1.2) *)
measureTextBlockHeight(block) == block.lines * (block.fontSize * 12)

(* textprinter.ts 185-191: padding * 2 plus, per block, its height + 10 *)
RECURSIVE SumBlocks(_, _)
SumBlocks(blocks, i) ==
    IF i > Len(blocks) THEN 0
    ELSE measureTextBlockHeight(blocks[i]) + 100 + SumBlocks(blocks, i + 1)

(* textprinter.ts 185-196 *)
totalHeight_NoMinimum(blocks) == 200 + SumBlocks(blocks, 1)

totalHeight(blocks) ==
    LET total == 200 + SumBlocks(blocks, 1)
    IN  IF total < 500 THEN 500 ELSE total

(* textprinter.ts 199: new OffscreenCanvas(paperWidth, totalHeight); the   *)
(* height attribute is an unsigned long, the fraction is dropped           *)
CanvasHeight(total) == total \div 10

NoPreview == [kind |-> "null"]

TxtInit ==
    /\ mode = "text"
    /\ burstStart = 0
    /\ now = 0
    /\ lastConversionTime = 0
    /\ SchedInit(MaxRequests)
    /\ UiInit
    /\ pipe = PipeIdle
    /\ rz = ResizeIdle
    /\ px = [pc |-> "off"]
    /\ tone = [pc |-> "off"]
    /\ \E n \in 0..MaxBlocks, c \in CurrentTexts, st \in BOOLEAN, w \in PaperWidths,
          direct \in BOOLEAN :
          \E bs \in [1..n -> TextBlocks] :
             txt = [pc |-> IF direct THEN "render" ELSE "changed",
                    caller |-> IF direct THEN "direct" ELSE "App",
                    textBlocks |-> bs, currentText |-> c, currentStyle |-> st,
                    paperWidth |-> w, blocks |-> IF direct THEN bs ELSE <<>>,
                    canvasHeight |-> 0, rendered |-> FALSE,
                    textPreviewImage |-> NoPreview]

(* App.vue 132-151: the watcher up to the call of renderTextDocument *)
WatchText ==
    /\ mode = "text"
    /\ txt.pc = "changed"
    /\ LET blocks == IF Trimmed(txt.currentText) /\ txt.currentStyle
                     THEN Append(txt.textBlocks, [lines |-> 1, fontSize |-> 24])
                     ELSE txt.textBlocks
       IN  txt' = IF Len(blocks) = 0
                  THEN [txt EXCEPT !.pc = "cleared", !.textPreviewImage = NoPreview]
                  ELSE [txt EXCEPT !.pc = "render", !.blocks = blocks]
    /\ UNCHANGED <<mode, burstStart, px, tone, pipe, rz, schedVars, uiVars>>

(* textprinter.ts 170-217: measure, create and paint the canvas *)
RenderCanvas ==
    /\ mode = "text"
    /\ txt.pc = "render"
    /\ txt' = [txt EXCEPT !.pc = "convert", !.rendered = TRUE,
                          !.canvasHeight = CanvasHeight(totalHeight(txt.blocks))]
    /\ UNCHANGED <<mode, burstStart, px, tone, pipe, rz, schedVars, uiVars>>

(* textprinter.ts 220-237 and App.vue 152-156: convertImageToBits returns  *)
(* the PrinterImage, or throws and the watcher clears the preview          *)
TextConverted(ok) ==
    /\ mode = "text"
    /\ txt.pc = "convert"
    /\ txt' = IF ok
              THEN [txt EXCEPT
                      !.pc = "shown",
                      !.textPreviewImage =
                          [kind |-> "PrinterImage",
                           image |-> PrinterImageOf(
                               [options |-> textRequestOptions,
                                outputWidthPixel |-> txt.paperWidth,
                                imageWidth |-> txt.paperWidth,
                                imageHeight |-> txt.canvasHeight])]]
              ELSE [txt EXCEPT !.pc = "failed", !.textPreviewImage = NoPreview]
    /\ UNCHANGED <<mode, burstStart, px, tone, pipe, rz, schedVars, uiVars>>

TxtNext ==
    \/ WatchText
    \/ RenderCanvas
    \/ TextConverted(TRUE)
    \/ TextConverted(FALSE)

TxtSpec == TxtInit /\ [][TxtNext]_vars

(* C17: with no stored block and no in-progress text the watcher shows no  *)
(* preview and renders nothing; renderTextDocument, for every document     *)
(* (also one without blocks), uses a canvas at least 50 px high and the    *)
(* PrinterImage it returns has a positive height.                          *)
C17_TextHeightPositive ==
    /\ (txt.caller = "App" /\ txt.pc # "changed"
           /\ Len(txt.textBlocks) = 0 /\ ~Trimmed(txt.currentText)) =>
          txt.pc = "cleared" /\ txt.textPreviewImage = NoPreview /\ ~txt.rendered
    /\ txt.rendered => txt.canvasHeight >= 50
    /\ txt.textPreviewImage.kind = "PrinterImage" =>
          /\ txt.rendered
          /\ txt.textPreviewImage.image.height > 0
          /\ txt.textPreviewImage.image.height = txt.canvasHeight

C17_Witness ==
    /\ txt.pc = "shown"
    /\ txt.caller = "direct"
    /\ txt.blocks = <<>>
    /\ txt.canvasHeight = 50
    /\ txt.textPreviewImage.kind = "PrinterImage"
    /\ txt.textPreviewImage.image.height = 50

----------------------------------------------------------------------------
(* the options record with every omitted field replaced by its default     *)
(* (printerimage.ts 35-52)                                                 *)
WithDefaults(o) ==
    [o EXCEPT
       !.filterOrder = IF @ = "undefined" THEN defaultImageConversionOptions.filterOrder ELSE @,
       !.resizeAlgorithm =
           IF @ = "undefined" THEN defaultImageConversionOptions.resizeAlgorithm ELSE @,
       !.sharpenBeforeResize =
           IF @ = "undefined" THEN defaultImageConversionOptions.sharpenBeforeResize ELSE @,
       !.sharpenAfterResize =
           IF @ = "undefined" THEN defaultImageConversionOptions.sharpenAfterResize ELSE @]

(* C18: a request whose options omit fields is processed as if each        *)
(* omitted field had its default: the external capabilities called are     *)
(* those the defaulted options enable, so with resizeAlgorithm omitted     *)
(* (default 'canvas') the external resample is not called.                 *)
C18_OmittedFieldsDefaulted ==
    pipe.pc # "off" =>
        \A i \in 1..Len(pipe.external) :
            StageEnabled(pipe.external[i].stage, WithDefaults(pipe.in.options))

----------------------------------------------------------------------------
(* Claims about requests that arrive while the scheduler is busy *)

Arrival == nreq' = nreq + 1

(* C19 as stated: a request that arrives while a conversion is running     *)
(* cancels that conversion and is itself held as the pending request with  *)
(* the throttle timer armed, not started at once.                          *)
C19_Orig_ArrivalWhileRunningIsScheduled ==
    [][(Arrival /\ Live # {}) =>
          /\ \A q \in Live : aborted'[q]
          /\ pendingConversion'.id = nreq'
          /\ throttleTimeout' # 0
          /\ run'[nreq'] = "idle"]_vars

(* C19: a request that arrives while a conversion that was not cancelled   *)
(* is running cancels it and is started at once, with nothing left pending *)
(* and no timer armed; a request is held as pending, with the timer armed, *)
(* only when it arrives less than minInterval after the last completed     *)
(* conversion, and then no conversion is running uncancelled and none is   *)
(* signalled.                                                              *)
C19_ArrivalWhileRunningStartsAtOnce ==
    [][Arrival =>
          /\ Live # {} =>
                /\ \A q \in Live : aborted'[q]
                /\ run'[nreq'] = "running"
                /\ pendingConversion' = NoPending
                /\ throttleTimeout' = 0
                /\ timers' = {}
          /\ pendingConversion'.id # 0 =>
                /\ pendingConversion'.id = nreq'
                /\ now - lastConversionTime < minInterval
                /\ Live = {}
                /\ aborted' = aborted
                /\ run'[nreq'] = "idle"
                /\ \E t \in timers' : t.h = throttleTimeout']_vars

C19_Witness ==
    \E q \in Reqs :
        /\ q < nreq
        /\ run[q] = "running" /\ aborted[q]
        /\ run[nreq] = "running" /\ ~aborted[nreq]
        /\ startTime[nreq] = now
        /\ startTime[q] < now
        /\ pendingConversion = NoPending
        /\ timers = {}

(* C20: while a request is pending exactly one timer is armed and its      *)
(* deadline is lastConversionTime + minInterval; a request that arrives    *)
(* then rejects the pending one and takes its place without moving the     *)
(* deadline, however often that happens, and the pending conversion is not *)
(* started before the deadline.                                            *)
C20_ReplacementKeepsDeadline ==
    /\ [](/\ Cardinality(timers) <= 1
          /\ pendingConversion.id # 0 =>
                /\ throttleTimeout # 0
                /\ timers = {[h |-> throttleTimeout,
                              at |-> lastConversionTime + minInterval]})
    /\ [][(Arrival /\ pendingConversion.id # 0) =>
             /\ promise'[pendingConversion.id] = "rejected"
             /\ reason'[pendingConversion.id] = "superseded"
             /\ run'[pendingConversion.id] = "idle"
             /\ pendingConversion'.id # 0 =>
                   /\ pendingConversion'.id = nreq'
                   /\ {t.at : t \in timers'} = {t.at : t \in timers}]_vars
    /\ [][\A r \in Reqs :
             (pendingConversion.id = r /\ run'[r] = "running") =>
                now >= lastConversionTime + minInterval]_vars

C20_Witness ==
    /\ nreq >= 3
    /\ pendingConversion.id = nreq
    /\ reason[nreq - 1] = "superseded"
    /\ reason[nreq - 2] = "superseded"
    /\ now > lastConversionTime
    /\ timers = {[h |-> nreq, at |-> lastConversionTime + minInterval]}

----------------------------------------------------------------------------
(* Claims about the stages of one conversion *)

(* C21: once the request of a running conversion has been superseded, the  *)
(* pipeline stops at its next stage boundary: it calls no further external *)
(* capability, starts no retry attempt and returns no PrinterImage.        *)
C21_AbortedPipelineStops ==
    [][(pipe.pc # "off" /\ pipe.aborted) =>
          /\ pipe'.external = pipe.external
          /\ Len(pipe'.attempts) = Len(pipe.attempts)
          /\ pipe'.outcome.kind # "PrinterImage"]_vars

----------------------------------------------------------------------------
(* The image watcher of App.vue (unnamed/part_001 171-275) with its cache  *)
(* of the preprocessed image (114-118).  A raster is the source image it   *)
(* was made from and the filter applied to it.  Every await of a handler   *)
(* lets other handlers and changes run; awaited calls finish in any order. *)
coreVars == <<mode, burstStart, px, tone, txt, pipe, rz, schedVars>>

coreVarsButTxt == <<mode, burstStart, px, tone, pipe, rz, schedVars>>

MaxChanges == 3

Images == {"imgA", "imgB"}

WatchOptions ==
    [preprocessFilter : {"none", "portrait", "pet"},
     filterOrder : {"before-resize", "after-resize"},
     threshold : {128, 100}]

Raster(src, filter) == [src |-> src, filter |-> filter]

NoCache == Raster("null", "none")

(* line 187 *)
shouldApplyFilterHere(options) ==
    options.filterOrder = "before-resize" /\ options.preprocessFilter # "none"

(* lines 228-230 *)
conversionOptions_Keep(options) == options

conversionOptions(options) ==
    IF options.filterOrder = "before-resize"
    THEN [options EXCEPT !.preprocessFilter = "none"]
    ELSE options

(* line 202 *)
TaggedSource(h, a) == a.imageRef

(* line 231: converterStore.convertImage(imageToConvert, ..) by handler h *)
Request(h, image, reused) ==
    [image |-> image, options |-> conversionOptions(h.options), change |-> h.change,
     asked |-> h.options, source |-> h.source, reused |-> reused]

(* lines 172-223: the handler up to its first await, or, when the cached   *)
(* raster is reused, up to the call of convertImage                        *)
HandlerStart(a) ==
    LET options == a.options
        h == [pc |-> "start", options |-> options, source |-> a.imageRef,
              change |-> a.changes]
        filterChanged == a.lastPreprocessFilter # options.preprocessFilter
        filterOrderChanged == a.lastFilterOrder # options.filterOrder
        imageChanged == a.lastSourceImage # a.imageRef
        changed == filterChanged \/ imageChanged \/ filterOrderChanged
    IN  IF a.imageRef = "null" THEN a
        ELSE IF changed /\ shouldApplyFilterHere(options)
        THEN [a EXCEPT !.handlers = Append(@, [h EXCEPT !.pc = "filtering"])]
        ELSE IF shouldApplyFilterHere(options) /\ a.cachedFilteredImage # NoCache
                /\ ~imageChanged /\ ~filterOrderChanged
        THEN [a EXCEPT !.handlers = Append(@, [h EXCEPT !.pc = "called"]),
                       !.requests = Append(@, Request(h, a.cachedFilteredImage, TRUE))]
        ELSE [a EXCEPT
                !.lastSourceImage = IF changed THEN a.imageRef ELSE @,
                !.lastPreprocessFilter = IF changed THEN options.preprocessFilter ELSE @,
                !.lastFilterOrder = IF changed THEN options.filterOrder ELSE @,
                !.cachedFilteredImage =
                    IF options.preprocessFilter = "none"
                       \/ options.filterOrder = "after-resize"
                    THEN NoCache ELSE @,
                !.handlers = Append(@, [h EXCEPT !.pc = "bitmap"])]

WatchInit ==
    /\ mode = "watch"
    /\ burstStart = 0
    /\ now = 0
    /\ lastConversionTime = 0
    /\ SchedInit(MaxRequests)
    /\ pipe = PipeIdle
    /\ rz = ResizeIdle
    /\ px = [pc |-> "off"]
    /\ tone = [pc |-> "off"]
    /\ txt = [pc |-> "off"]
    /\ store = [pc |-> "off"]
    /\ toggle = [pc |-> "off"]
    /\ geo = [pc |-> "off"]
    /\ app = [pc |-> "on", imageRef |-> "null",
              options |-> [preprocessFilter |-> "none", filterOrder |-> "before-resize",
                           threshold |-> 128],
              lastPreprocessFilter |-> "null", lastFilterOrder |-> "null",
              lastSourceImage |-> "null", cachedFilteredImage |-> NoCache,
              handlers |-> <<>>, requests |-> <<>>, changes |-> 0]

(* lines 139-141 then the watcher *)
SetImage(image) ==
    /\ mode = "watch"
    /\ app.changes < MaxChanges
    /\ image # app.imageRef
    /\ app' = HandlerStart([app EXCEPT !.imageRef = image, !.changes = @ + 1])
    /\ UNCHANGED <<coreVars, store, toggle, geo>>

(* imageConversionOptions changes, then the watcher *)
SetOptions(options) ==
    /\ mode = "watch"
    /\ app.changes < MaxChanges
    /\ options # app.options
    /\ app' = HandlerStart([app EXCEPT !.options = options, !.changes = @ + 1])
    /\ UNCHANGED <<coreVars, store, toggle, geo>>

(* lines 194-231: the awaits of the filter branch are over *)
FilterDone(i, ok) ==
    /\ mode = "watch"
    /\ i \in DOMAIN app.handlers
    /\ app.handlers[i].pc = "filtering"
    /\ LET h == app.handlers[i]
           filtered == Raster(h.source, h.options.preprocessFilter)
       IN  app' = IF ok
                  THEN [app EXCEPT
                          !.cachedFilteredImage = filtered,
                          !.lastPreprocessFilter = h.options.preprocessFilter,
                          !.lastFilterOrder = h.options.filterOrder,
                          !.lastSourceImage = TaggedSource(h, app),
                          !.handlers[i].pc = "called",
                          !.requests = Append(@, Request(h, filtered, FALSE))]
                  ELSE [app EXCEPT !.handlers[i].pc = "failed"]
    /\ UNCHANGED <<coreVars, store, toggle, geo>>

(* lines 222-231: createImageBitmap(imageRef.value) is over *)
BitmapDone(i) ==
    /\ mode = "watch"
    /\ i \in DOMAIN app.handlers
    /\ app.handlers[i].pc = "bitmap"
    /\ LET h == app.handlers[i]
       IN  app' = [app EXCEPT
                     !.handlers[i].pc = "called",
                     !.requests = Append(@, Request(h, Raster(h.source, "none"), FALSE))]
    /\ UNCHANGED <<coreVars, store, toggle, geo>>

WatchNext ==
    \/ \E image \in Images : SetImage(image)
    \/ \E options \in WatchOptions : SetOptions(options)
    \/ \E i \in DOMAIN app.handlers : FilterDone(i, TRUE)
    \/ \E i \in DOMAIN app.handlers : FilterDone(i, FALSE)
    \/ \E i \in DOMAIN app.handlers : BitmapDone(i)

WatchSpec == WatchInit /\ [][WatchNext]_vars

(* C22: the recorded tags always describe the raster held in               *)
(* cachedFilteredImage (its source image, its filter kind, filter order    *)
(* before-resize), and a request that reuses the cached raster gets the    *)
(* raster of the image current at that time with the filter asked for.     *)
C22_CacheTagsDescribeRaster ==
    app.pc = "on" =>
        /\ app.cachedFilteredImage # NoCache =>
              /\ app.cachedFilteredImage.src = app.lastSourceImage
              /\ app.cachedFilteredImage.filter = app.lastPreprocessFilter
              /\ app.lastFilterOrder = "before-resize"
        /\ \A k \in DOMAIN app.requests :
              app.requests[k].reused =>
                  /\ app.requests[k].image.src = app.requests[k].source
                  /\ app.requests[k].image.filter = app.requests[k].asked.preprocessFilter

(* The filter applications a request goes through, in order: the one of    *)
(* the watcher (lines 194-200), then those of the pipeline stages enabled  *)
(* by the options handed to convertImage.                                  *)
PipelineOptionsOf(o) ==
    [defaultImageConversionOptions EXCEPT
        !.preprocessFilter = o.preprocessFilter,
        !.filterOrder = o.filterOrder,
        !.threshold = o.threshold]

FilterApplications(r) ==
    (IF r.image.filter # "none" THEN <<[at |-> "before-resize", kind |-> r.image.filter]>>
     ELSE <<>>)
    \o (IF StageEnabled("filterBefore", PipelineOptionsOf(r.options))
        THEN <<[at |-> "before-resize", kind |-> r.options.preprocessFilter]>> ELSE <<>>)
    \o (IF StageEnabled("filterAfter", PipelineOptionsOf(r.options))
        THEN <<[at |-> "after-resize", kind |-> r.options.preprocessFilter]>> ELSE <<>>)

(* C23: a request made for a preprocessFilter other than none has that     *)
(* filter applied exactly once, on the side of the resize its filterOrder  *)
(* names; a request made for none has no filter applied.                   *)
C23_FilterAppliedOnce ==
    app.pc = "on" =>
        \A k \in DOMAIN app.requests :
            LET r == app.requests[k]
            IN  FilterApplications(r) =
                    IF r.asked.preprocessFilter = "none" THEN <<>>
                    ELSE <<[at |-> r.asked.filterOrder, kind |-> r.asked.preprocessFilter]>>

C23_Witness ==
    /\ app.pc = "on"
    /\ \E k \in DOMAIN app.requests :
          /\ app.requests[k].asked.preprocessFilter # "none"
          /\ app.requests[k].asked.filterOrder = "before-resize"
          /\ app.requests[k].reused
          /\ FilterApplications(app.requests[k]) # <<>>

(* C26: the requests reach convertImage in the order of the changes that   *)
(* caused them.                                                            *)
C26_RequestsInChangeOrder ==
    app.pc = "on" =>
        \A j, k \in DOMAIN app.requests :
            j < k => app.requests[j].change < app.requests[k].change

(* The auto-adjust steps run in attempt a, in the order of their calls *)
AutoKind(st) ==
    CASE st \in {"autoLevelsBefore", "autoLevelsAfter"} -> "levels"
      [] st \in {"autoContrastBefore", "autoContrastAfter"} -> "contrast"
      [] st \in {"autoExposureBefore", "autoExposureAfter"} -> "exposure"
      [] OTHER -> "none"

AutoStepsRun(a) ==
    LET IsAuto(c) == c.attempt = a /\ AutoKind(c.stage) # "none"
        s == SelectSeq(pipe.external, IsAuto)
    IN  [i \in 1..Len(s) |-> AutoKind(s[i].stage)]

AutoStepsEnabled(o) ==
    LET On(k) == \/ k = "levels" /\ o.autoLevels
                 \/ k = "contrast" /\ o.autoContrast
                 \/ k = "exposure" /\ o.autoExposure
    IN  SelectSeq(<<"levels", "contrast", "exposure">>, On)

(* C24: in one attempt the enabled auto-adjust steps run in the order      *)
(* levels, contrast, exposure, each exactly once whatever filterOrder is,  *)
(* and a disabled step is never applied.                                   *)
C24_AutoAdjustOncePerAttempt ==
    pipe.pc # "off" =>
        \A a \in 1..Len(pipe.attempts) :
            LET ran == AutoStepsRun(a - 1)
                enabled == AutoStepsEnabled(pipe.in.options)
            IN  /\ Len(ran) <= Len(enabled)
                /\ \A i \in 1..Len(ran) : ran[i] = enabled[i]
                /\ pipe.attempts[a].result = "returned" => ran = enabled

----------------------------------------------------------------------------
(* The two passes of renderTextDocument (textprinter.ts 170-214) over the  *)
(* content of the blocks.  A content is its paragraphs (split at '\n'),    *)
(* each the lengths of its words (split at ' '); a line is its number of   *)
(* characters.  measureText is the font capability: every character of a   *)
(* font of size f is taken 0.6 f wide.  Lengths are in tenths of a pixel.  *)
Contents ==
    {<< <<0>> >>, << <<2>> >>, << <<3, 2, 3>> >>, << <<5>>, <<0, 0>>, <<2, 4>> >>}

FontSizes == {8, 24}

WrapPaperWidths == {100, 384}

padding == 10

(* ctx.measureText(line).width for a line of n characters *)
measureText(n, fontSize) == n * fontSize * 6

(* textprinter.ts 64-82: the words of one paragraph from word i on, with   *)
(* currentLine of cur characters                                           *)
RECURSIVE WrapWords(_, _, _, _, _)
WrapWords(words, i, cur, fontSize, maxWidth) ==
    IF i > Len(words)
    THEN IF cur > 0 THEN <<cur>> ELSE <<>>
    ELSE LET testLine == cur + (IF cur > 0 THEN 1 ELSE 0) + words[i]
         IN  IF measureText(testLine, fontSize) > maxWidth /\ cur > 0
             THEN <<cur>> \o WrapWords(words, i + 1, words[i], fontSize, maxWidth)
             ELSE WrapWords(words, i + 1, testLine, fontSize, maxWidth)

(* textprinter.ts 52-87 *)
RECURSIVE wrapText(_, _, _, _)
wrapText(content, p, fontSize, maxWidth) ==
    IF p > Len(content) THEN <<>>
    ELSE (IF \A i \in DOMAIN content[p] : content[p][i] = 0
          THEN <<0>>
          ELSE WrapWords(content[p], 1, 0, fontSize, maxWidth))
         \o wrapText(content, p + 1, fontSize, maxWidth)

(* line 175 *)
MeasureWrapWidth(paperWidth) == (paperWidth - padding * 2) * 10

(* line 130, called with maxWidth = paperWidth (line 209) *)
DrawWrapWidth_Unpadded(maxWidth) == maxWidth * 10

DrawWrapWidth(maxWidth) == (maxWidth - padding * 2) * 10

lineHeight(block) == block.fontSize * 12

WrapInit ==
    /\ mode = "wrap"
    /\ burstStart = 0
    /\ now = 0
    /\ lastConversionTime = 0
    /\ SchedInit(MaxRequests)
    /\ UiInit
    /\ pipe = PipeIdle
    /\ rz = ResizeIdle
    /\ px = [pc |-> "off"]
    /\ tone = [pc |-> "off"]
    /\ \E n \in 0..MaxBlocks :
       \E blocks \in [1..n -> [content : Contents, fontSize : FontSizes]] :
       \E paperWidth \in WrapPaperWidths :
          txt = [pc |-> "measure", sortedBlocks |-> blocks, paperWidth |-> paperWidth,
                 measured |-> <<>>, totalHeight |-> padding * 2 * 10, floored |-> FALSE,
                 canvasHeight |-> 0, drawn |-> <<>>, currentY |-> 0]

(* lines 188-191: one block is measured *)
MeasureBlock ==
    /\ mode = "wrap"
    /\ txt.pc = "measure"
    /\ Len(txt.measured) < Len(txt.sortedBlocks)
    /\ LET block == txt.sortedBlocks[Len(txt.measured) + 1]
           lines == wrapText(block.content, 1, block.fontSize,
                             MeasureWrapWidth(txt.paperWidth))
       IN  txt' = [txt EXCEPT !.measured = Append(@, lines),
                              !.totalHeight = @ + Len(lines) * lineHeight(block) + 100]
    /\ UNCHANGED <<coreVarsButTxt, uiVars>>

(* lines 194-205: the floor, the canvas, currentY = padding *)
CreateCanvas ==
    /\ mode = "wrap"
    /\ txt.pc = "measure"
    /\ Len(txt.measured) = Len(txt.sortedBlocks)
    /\ LET total == IF txt.totalHeight < 500 THEN 500 ELSE txt.totalHeight
       IN  txt' = [txt EXCEPT !.pc = "draw", !.totalHeight = total,
                              !.floored = txt.totalHeight < 500,
                              !.canvasHeight = CanvasHeight(total),
                              !.currentY = padding * 10]
    /\ UNCHANGED <<coreVarsButTxt, uiVars>>

(* lines 208-211 with drawTextBlock, 113-156 *)
DrawTextBlock ==
    /\ mode = "wrap"
    /\ txt.pc = "draw"
    /\ Len(txt.drawn) < Len(txt.sortedBlocks)
    /\ LET block == txt.sortedBlocks[Len(txt.drawn) + 1]
           lines == wrapText(block.content, 1, block.fontSize,
                             DrawWrapWidth(txt.paperWidth))
       IN  txt' = [txt EXCEPT !.drawn = Append(@, lines),
                              !.currentY = @ + Len(lines) * lineHeight(block) + 100]
    /\ UNCHANGED <<coreVarsButTxt, uiVars>>

(* line 214: the canvas is finished *)
CanvasDrawn ==
    /\ mode = "wrap"
    /\ txt.pc = "draw"
    /\ Len(txt.drawn) = Len(txt.sortedBlocks)
    /\ txt' = [txt EXCEPT !.pc = "drawn"]
    /\ UNCHANGED <<coreVarsButTxt, uiVars>>

WrapNext == MeasureBlock \/ CreateCanvas \/ DrawTextBlock \/ CanvasDrawn

WrapSpec == WrapInit /\ [][WrapNext]_vars

(* C25: the draw pass wraps every block into the lines the measurement     *)
(* pass counted, and the y position after the last block is the measured   *)
(* total height minus the bottom padding when the floor of 50 px was not   *)
(* applied, and never exceeds the height of the canvas.                    *)
C25_DrawMirrorsMeasure ==
    (mode = "wrap" /\ txt.pc \in {"draw", "drawn"}) =>
        /\ \A i \in DOMAIN txt.drawn : txt.drawn[i] = txt.measured[i]
        /\ txt.pc = "drawn" =>
              /\ txt.currentY <= txt.canvasHeight * 10
              /\ ~txt.floored => txt.currentY = txt.totalHeight - padding * 10

C25_Witness ==
    /\ mode = "wrap"
    /\ txt.pc = "drawn"
    /\ ~txt.floored
    /\ \E i \in DOMAIN txt.drawn : Len(txt.drawn[i]) = 3
    /\ \E i \in DOMAIN txt.drawn : Len(txt.drawn[i]) = 4
    /\ txt.canvasHeight * 10 < txt.totalHeight

----------------------------------------------------------------------------
(* C27: a request is pending exactly when the throttle timer is armed, and *)
(* while a request is pending no conversion that was not aborted is        *)
(* waiting for the worker.                                                 *)
C27_PendingExcludesLiveRun ==
    /\ pendingConversion.id # 0 <=> throttleTimeout # 0
    /\ throttleTimeout # 0 <=> timers # {}
    /\ pendingConversion.id # 0 => Live = {}

C27_Witness ==
    /\ pendingConversion.id # 0
    /\ throttleTimeout # 0
    /\ \E q \in Running : aborted[q]
    /\ \E r \in Reqs : promise[r] = "resolved"

----------------------------------------------------------------------------
(* The output size of convertImageToBitsInternal (imagehelper.ts 187-200)  *)
(* for options inside their ranges, and the read-back of the canvas        *)
(* (lines 315-316).                                                        *)
GeoInputs ==
    [options : {[defaultImageConversionOptions EXCEPT
                    !.rotation = r, !.widthPercentage = w, !.heightPercentage = h] :
                        r \in {0, 90, 180, 270}, w \in {1, 50, 100}, h \in {1, 50, 100}},
     outputWidthPixel : {8, 16, 384},
     imageWidth : {1, 8, 64},
     imageHeight : {1, 8, 64}]

GeoInit ==
    /\ mode = "geo"
    /\ burstStart = 0
    /\ now = 0
    /\ lastConversionTime = 0
    /\ SchedInit(MaxRequests)
    /\ pipe = PipeIdle
    /\ rz = ResizeIdle
    /\ px = [pc |-> "off"]
    /\ tone = [pc |-> "off"]
    /\ txt = [pc |-> "off"]
    /\ app = [pc |-> "off"]
    /\ store = [pc |-> "off"]
    /\ toggle = [pc |-> "off"]
    /\ \E in \in GeoInputs :
          geo = [pc |-> "size", in |-> in, actualImageWidth |-> 0,
                 fullOutputHeight |-> 0, outputHeight |-> 0]

(* lines 187-200 *)
OutputSize ==
    /\ mode = "geo"
    /\ geo.pc = "size"
    /\ geo' = [geo EXCEPT !.pc = "sample",
                          !.actualImageWidth = actualImageWidth(geo.in),
                          !.fullOutputHeight = fullOutputHeight(geo.in),
                          !.outputHeight = outputHeight(geo.in)]
    /\ UNCHANGED <<coreVars, app, store, toggle>>

(* lines 315-316: getImageData(0, 0, outputWidthPixel, outputHeight)       *)
(* throws for an empty rectangle                                           *)
GetImageData ==
    /\ mode = "geo"
    /\ geo.pc = "sample"
    /\ geo' = [geo EXCEPT !.pc = IF geo.outputHeight = 0 THEN "thrown" ELSE "sampled"]
    /\ UNCHANGED <<coreVars, app, store, toggle>>

GeoNext == OutputSize \/ GetImageData

GeoSpec == GeoInit /\ [][GeoNext]_vars

(* C28: for a raster of positive size, an output width that is a positive  *)
(* multiple of 8, a rotation of 0, 90, 180 or 270 and width and height     *)
(* percentages in 1..100, the computed output height is at least 1.        *)
C28_OutputHeightPositive ==
    (mode = "geo" /\ geo.pc # "size") => geo.outputHeight >= 1

----------------------------------------------------------------------------
(* The text document store (ImageConversionCard.vue 289-337) as the editor *)
(* uses it (unnamed/part_000 59-85).  The id of a block (a random UUID) is *)
(* the number of the add that made it.                                     *)
MaxAdds == 5

StoreInit ==
    /\ mode = "store"
    /\ burstStart = 0
    /\ now = 0
    /\ lastConversionTime = 0
    /\ SchedInit(MaxRequests)
    /\ pipe = PipeIdle
    /\ rz = ResizeIdle
    /\ px = [pc |-> "off"]
    /\ tone = [pc |-> "off"]
    /\ txt = [pc |-> "off"]
    /\ app = [pc |-> "off"]
    /\ toggle = [pc |-> "off"]
    /\ geo = [pc |-> "off"]
    /\ store = [pc |-> "on", textBlocks |-> <<>>, adds |-> 0]

(* [...blocks].sort((a, b) => a.order - b.order): a stable sort *)
sortedBlocks(blocks) ==
    LET Before(j, i) == \/ blocks[j].order < blocks[i].order
                        \/ blocks[j].order = blocks[i].order /\ j < i
        Rank(i) == 1 + Cardinality({j \in DOMAIN blocks : Before(j, i)})
    IN  [k \in DOMAIN blocks |-> blocks[CHOOSE i \in DOMAIN blocks : Rank(i) = k]]

(* addTextBlock, part_000 70-78, with addBlock, lines 293-295 *)
addBlock ==
    /\ mode = "store"
    /\ store.adds < MaxAdds
    /\ store' = [store EXCEPT
                    !.adds = @ + 1,
                    !.textBlocks = Append(@, [id |-> store.adds + 1,
                                              order |-> Len(store.textBlocks)])]
    /\ UNCHANGED <<coreVars, app, toggle, geo>>

(* deleteBlock, lines 310-312 *)
deleteBlock(id) ==
    /\ mode = "store"
    /\ \E i \in DOMAIN store.textBlocks : store.textBlocks[i].id = id
    /\ LET Kept(b) == b.id # id
       IN  store' = [store EXCEPT !.textBlocks = SelectSeq(@, Kept)]
    /\ UNCHANGED <<coreVars, app, toggle, geo>>

StoreNext == addBlock \/ \E id \in 1..MaxAdds : deleteBlock(id)

StoreSpec == StoreInit /\ [][StoreNext]_vars

(* C29: whatever blocks were added and deleted, the blocks sorted by order *)
(* (ties in input order) are in the order in which they were added.        *)
C29_SortedInAddOrder ==
    mode = "store" =>
        LET s == sortedBlocks(store.textBlocks)
        IN  \A j, k \in DOMAIN s : j < k => s[j].id < s[k].id

----------------------------------------------------------------------------
(* ToggleGroup.vue 26-49 around the ToggleGroupRoot of the rotation and    *)
(* algorithm groups (ImageConversionCard.vue 69-88).  A JavaScript value   *)
(* is its type with its number or string.                                  *)
MaxUpdates == 3

Number(n) == [t |-> "number", n |-> n, s |-> ""]
String(s) == [t |-> "string", n |-> 0, s |-> s]
Undefined == [t |-> "undefined", n |-> 0, s |-> ""]
Null == [t |-> "null", n |-> 0, s |-> ""]

(* value === undefined || value === null || value === '' *)
IsEmptyValue(newValue) == newValue \in {Undefined, Null, String("")}

(* the truth value of previousValue.value, line 34 *)
ToBoolean(newValue) ==
    CASE newValue.t = "number" -> newValue.n # 0
      [] newValue.t = "string" -> newValue.s # ""
      [] OTHER -> FALSE

ToggleOptions ==
    [rotation |-> {Number(0), Number(90), Number(270)},
     algorithm |-> {String("Basic"), String("Atkinson")}]

ToggleInit ==
    /\ mode = "toggle"
    /\ burstStart = 0
    /\ now = 0
    /\ lastConversionTime = 0
    /\ SchedInit(MaxRequests)
    /\ pipe = PipeIdle
    /\ rz = ResizeIdle
    /\ px = [pc |-> "off"]
    /\ tone = [pc |-> "off"]
    /\ txt = [pc |-> "off"]
    /\ app = [pc |-> "off"]
    /\ store = [pc |-> "off"]
    /\ geo = [pc |-> "off"]
    /\ \E group \in DOMAIN ToggleOptions :
       \E newValue \in ToggleOptions[group] \cup {Undefined} :
          toggle = [pc |-> "on", type |-> "single", group |-> group,
                    modelValue |-> newValue, previousValue |-> newValue, emitted |-> <<>>]

(* lines 30-44, then the v-model of the parent and the watcher, 47-49 *)
handleUpdateModelValue(t, newValue) ==
    IF t.type = "single" /\ IsEmptyValue(newValue) /\ ToBoolean(t.previousValue)
    THEN t
    ELSE [t EXCEPT !.previousValue = newValue,
                   !.modelValue = newValue,
                   !.emitted = Append(@, newValue)]

(* ToggleGroupRoot emits update:modelValue: an option that was clicked, or *)
(* an empty value when the selected option is clicked again                *)
UpdateModelValue(newValue) ==
    /\ mode = "toggle"
    /\ Len(toggle.emitted) < MaxUpdates
    /\ toggle' = handleUpdateModelValue(toggle, newValue)
    /\ UNCHANGED <<coreVars, app, store, geo>>

(* the parent changes modelValue; the watcher keeps previousValue in sync *)
SetModelValue(newValue) ==
    /\ mode = "toggle"
    /\ newValue # toggle.modelValue
    /\ toggle' = [toggle EXCEPT !.modelValue = newValue, !.previousValue = newValue]
    /\ UNCHANGED <<coreVars, app, store, geo>>

ToggleNext ==
    \/ \E newValue \in ToggleOptions[toggle.group] \cup {Undefined, Null, String("")} :
          UpdateModelValue(newValue)
    \/ \E newValue \in ToggleOptions[toggle.group] : SetModelValue(newValue)

ToggleSpec == ToggleInit /\ [][ToggleNext]_vars

(* C30: in a group of type single a selection, once made, never becomes    *)
(* empty: no step takes modelValue from an option value to undefined, null *)
(* or the empty string, whatever the option value is.                      *)
C30_SelectionNeverEmptied ==
    [][(mode = "toggle" /\ ~IsEmptyValue(toggle.modelValue))
          => ~IsEmptyValue(toggle'.modelValue)]_vars

====
